---- MODULE Spec2Model ----
(***************************************************************************)
(* State-machine model of the Orange Pi 5 Plus kernel builder (builder.c)  *)
(* and, further down, of its installer (installer.c).                      *)
(* main() parses the command line into one build_config_t record and then  *)
(* calls the stage functions in a fixed order; every stage shells out      *)
(* through execute_command() and inspects what system(3) returned.         *)
(*                                                                         *)
(* One action per loop iteration of the parser and one action per stage    *)
(* function called from main().  The outcome of every external command and *)
(* file operation of a stage is an input of the action, drawn from the     *)
(* fault sets below.  trace records, in order, every command, file         *)
(* operation, log record and stage entry of the run.                       *)
(***************************************************************************)
EXTENDS Integers, Sequences, FiniteSets, TLC

VARIABLES
    argv,         \* the command line after argv[0]
    i,            \* loop index of the parser (1-based position in argv)
    config,       \* the config record of main(): build_config_t in builder.c,
                  \* installer_config_t in installer.c
    no_install,   \* int no_install
    cleanup,      \* int cleanup
    verify_gpu,   \* int verify_gpu
    nproc,        \* what sysconf(_SC_NPROCESSORS_ONLN) reports on this machine
    pc,           \* position of main()
    fs,           \* the paths that exist in the file system
    cwd,          \* the working directory of the process
    log_fp,       \* FILE *log_fp: "null", "open" or "closed"
    trace,        \* everything the run did so far, in order
    faults_left,  \* how many more steps of this run may fail
    exit_status,  \* value returned by main(); -1 while it runs
    package_manager,  \* char package_manager[32] of the installer's main()
    fs0           \* the paths that existed when the program was started

vars == <<argv, i, config, no_install, cleanup, verify_gpu, nproc, pc, fs, cwd,
          log_fp, trace, faults_left, exit_status, package_manager, fs0>>

(***************************************************************************)
(* Bounds of the model.                                                    *)
(***************************************************************************)
\* longest command line of SpecParse
MaxArgs == 2
\* most steps (commands, file operations) that fail in one run of Spec
MaxFaults == 1

(***************************************************************************)
(* Paths and defaults of builder.c.                                        *)
(***************************************************************************)
BUILD_DIR == "/tmp/kernel_build"
LOG_FILE == "/tmp/kernel_build.log"
MALI_DIR == "/tmp/mali_install"
CUSTOM_DIR == "/mnt/build"
FW_TMP == "/tmp/mali_install/mali_csffw.bin"
DRV_TMP == "/tmp/mali_install/libmali-valhall-g610-g6p0-x11-wayland-gbm.so"
VK_TMP == "/tmp/mali_install/libmali-valhall-g610-g6p0-wayland-gbm-vulkan.so"
FW_SYS == "/lib/firmware/mali_csffw.bin"
DRV_SYS == "/usr/lib/libmali-valhall-g610-g6p0-x11-wayland-gbm.so"
VK_SYS == "/usr/lib/libmali-valhall-g610-g6p0-wayland-gbm-vulkan.so"
OPENCL_DIR == "/etc/OpenCL/vendors"
OPENCL_ICD == "/etc/OpenCL/vendors/mali.icd"
VULKAN_DIR == "/usr/share/vulkan/icd.d"
VULKAN_ICD == "/usr/share/vulkan/icd.d/mali.json"

DefaultConfigClean ==
    [kernel_version |-> "6.8.0",
     build_dir |-> BUILD_DIR,
     cross_compile |-> "aarch64-linux-gnu-",
     arch |-> "arm64",
     defconfig |-> "rockchip_linux_defconfig",
     jobs |-> 0,
     verbose |-> FALSE,
     clean_build |-> TRUE,
     install_gpu_blobs |-> TRUE,
     enable_opencl |-> TRUE,
     enable_vulkan |-> TRUE]

DefaultConfig ==
    [kernel_version |-> "6.8.0",
     build_dir |-> BUILD_DIR,
     cross_compile |-> "aarch64-linux-gnu-",
     arch |-> "arm64",
     defconfig |-> "rockchip_linux_defconfig",
     jobs |-> 0,
     verbose |-> FALSE,
     clean_build |-> FALSE,
     install_gpu_blobs |-> TRUE,
     enable_opencl |-> TRUE,
     enable_vulkan |-> TRUE]

(***************************************************************************)
(* The command-line tokens of the model: every flag main() compares        *)
(* against, one token it does not know, and some values.                   *)
(***************************************************************************)
HelpFlags == {"-h", "--help"}
VersionFlags == {"-v", "--version"}
JobsFlags == {"-j", "--jobs"}
BuildDirFlags == {"-d", "--build-dir"}
CleanFlags == {"-c", "--clean"}
ValueFlags ==
    VersionFlags \cup JobsFlags \cup BuildDirFlags \cup {"--defconfig", "--cross-compile"}
ToggleFlags ==
    CleanFlags \cup {"--verbose", "--no-install", "--cleanup", "--enable-gpu",
                     "--disable-gpu", "--enable-opencl", "--disable-opencl",
                     "--enable-vulkan", "--disable-vulkan", "--verify-gpu"}
KnownFlags == HelpFlags \cup ValueFlags \cup ToggleFlags
Values == {"8", "0", "-5", "6.10.0", CUSTOM_DIR}
Tokens == KnownFlags \cup {"--bogus"} \cup Values

\* atoi(3) on the tokens of the model: an optional sign and the leading
\* decimal digits, 0 if there are none
atoi(tok) ==
    CASE tok = "8" -> 8
      [] tok = "-5" -> -5
      [] tok = "6.10.0" -> 6
      [] OTHER -> 0

RECURSIVE SeqsUpTo(_, _)
SeqsUpTo(S, n) ==
    IF n = 0 THEN {<<>>}
    ELSE LET shorter == SeqsUpTo(S, n - 1)
         IN shorter \cup {Append(s, t) : s \in {x \in shorter : Len(x) = n - 1}, t \in S}

(***************************************************************************)
(* The argument loop of main(), one iteration per step.                    *)
(***************************************************************************)
\* if (++i < argc): a value flag at position k has a value to take
HasValue(k) == k + 1 <= Len(argv)

\* --enable-gpu: config.install_gpu_blobs = 1;
EnableGpuAndChildren(cfg) ==
    [cfg EXCEPT !.install_gpu_blobs = TRUE, !.enable_opencl = TRUE,
                !.enable_vulkan = TRUE]

EnableGpuAndVulkan(cfg) ==
    [cfg EXCEPT !.install_gpu_blobs = TRUE, !.enable_vulkan = TRUE]

EnableGpu(cfg) == [cfg EXCEPT !.install_gpu_blobs = TRUE]

\* --disable-gpu: the GPU flag and both API flags are cleared
DisableGpuOnly(cfg) == [cfg EXCEPT !.install_gpu_blobs = FALSE]

DisableGpu(cfg) ==
    [cfg EXCEPT !.install_gpu_blobs = FALSE,
                !.enable_opencl = FALSE,
                !.enable_vulkan = FALSE]

ApplyToken(cfg, k) ==
    LET tok == argv[k] IN
    CASE tok \in VersionFlags ->
           IF HasValue(k) THEN [cfg EXCEPT !.kernel_version = argv[k + 1]] ELSE cfg
      [] tok \in JobsFlags ->
           IF HasValue(k) THEN [cfg EXCEPT !.jobs = atoi(argv[k + 1])] ELSE cfg
      [] tok \in BuildDirFlags ->
           IF HasValue(k) THEN [cfg EXCEPT !.build_dir = argv[k + 1]] ELSE cfg
      [] tok \in CleanFlags -> [cfg EXCEPT !.clean_build = TRUE]
      [] tok = "--defconfig" ->
           IF HasValue(k) THEN [cfg EXCEPT !.defconfig = argv[k + 1]] ELSE cfg
      [] tok = "--cross-compile" ->
           IF HasValue(k) THEN [cfg EXCEPT !.cross_compile = argv[k + 1]] ELSE cfg
      [] tok = "--verbose" -> [cfg EXCEPT !.verbose = TRUE]
      [] tok = "--enable-gpu" -> EnableGpu(cfg)
      [] tok = "--disable-gpu" -> DisableGpu(cfg)
      [] tok = "--enable-opencl" -> [cfg EXCEPT !.enable_opencl = TRUE]
      [] tok = "--disable-opencl" -> [cfg EXCEPT !.enable_opencl = FALSE]
      [] tok = "--enable-vulkan" -> [cfg EXCEPT !.enable_vulkan = TRUE]
      [] tok = "--disable-vulkan" -> [cfg EXCEPT !.enable_vulkan = FALSE]
      [] OTHER -> cfg

\* how far one iteration moves i: ++i in a value flag, then the loop's i++
AdvanceByOne(k) == k + 1

Advance(k) == IF argv[k] \in ValueFlags THEN k + 2 ELSE k + 1

(***************************************************************************)
(* Inputs of a stage: F is the set of <<step, kind>> pairs saying which    *)
(* steps of the stage fail in this run and how.  Every other step is "ok". *)
(*   "fail"   the external command exits non-zero (a file operation or a   *)
(*            check fails); the shell wrapper around it works              *)
(*   "shfail" the command itself exits 0 and has its effect, but the shell *)
(*            pipeline system(3) runs it in ends non-zero (tee cannot      *)
(*            append to the log file)                                      *)
(*   "bothfail" the command exits non-zero and the shell pipeline around   *)
(*            it ends non-zero as well                                     *)
(*   "partial" wget -O FILE exits non-zero after it has created FILE (the  *)
(*            output file is opened before the transfer starts)            *)
(* A command that cannot succeed in the file system it runs in (Blocked    *)
(* below) exits non-zero whatever F says; its outcome is "blocked", or      *)
(* "bothfail" when F makes the pipeline around it fail too.                *)
(***************************************************************************)
Outcome(F, id) ==
    IF \E f \in F : f[1] = id THEN (CHOOSE f \in F : f[1] = id)[2] ELSE "ok"

\* the sets of at most n faults over the <<step, kind>> pairs P, one per step
RECURSIVE FaultSets(_, _)
FaultSets(P, n) ==
    IF n = 0 THEN {{}}
    ELSE LET fewer == FaultSets(P, n - 1)
         IN fewer \cup UNION {{F \cup {p} : p \in {q \in P : \A f \in F : f[1] # q[1]}} :
                                  F \in fewer}

\* a command run through "cmd 2>&1 | tee -a LOG": the command, tee or both fail
Piped(ids) == ids \X {"fail", "shfail", "bothfail"}
\* a command run through "cmd >> LOG 2>&1", a file operation, a check
Plain(ids) == ids \X {"fail"}
\* wget -O FILE: a failed transfer that leaves FILE behind
Partial(ids) == ids \X {"partial"}

\* the faults of F that the events ev show to have happened
Used(F, ev) ==
    Cardinality({f \in F : \E k \in 1..Len(ev) :
                     ev[k][1] \in {"cmd", "op"} /\ ev[k][2] = f[1] /\ ev[k][4] = f[2]})

(***************************************************************************)
(* The running state of a stage: the events it appended, the file system,  *)
(* the working directory, log_fp, and rc, the value of the call just made. *)
(***************************************************************************)
Begin(name) ==
    [ev |-> <<<<"stage", name, "", "", "">>>>, fs |-> fs, cwd |-> cwd,
     log_fp |-> log_fp, rc |-> 0]

Return(r, value) == [r EXCEPT !.rc = value]

\* log_message(): always to the console, to the log file only when log_fp is set
log_message(r, level, message) ==
    [r EXCEPT !.ev = Append(@, <<"log", level, message, "",
                                 IF r.log_fp = "open" THEN "file" ELSE "console">>)]

\* what system(3) returns for the shell command line execute_command() builds:
\* with show_output the status of the pipeline "cmd 2>&1 | tee -a LOG", which
\* is tee's; without it the status of "cmd >> LOG 2>&1", which is cmd's
SystemResult(show_output, out) ==
    IF show_output
    THEN IF out \in {"shfail", "bothfail"} THEN 1 ELSE 0
    ELSE IF out = "ok" THEN 0 ELSE 1

\* the files an external command run in directory dir leaves behind when it
\* succeeds
Effect(id, arg, dir, files) ==
    CASE id = "wget mali_csffw.bin" -> files \cup {FW_TMP}
      [] id = "wget libmali" -> files \cup {DRV_TMP}
      [] id = "wget libmali-vulkan" -> files \cup {VK_TMP}
      [] id = "cp mali_csffw.bin /lib/firmware/" -> files \cup {FW_SYS}
      [] id = "cp libmali /usr/lib/" -> files \cup {DRV_SYS}
      [] id = "cp libmali-vulkan /usr/lib/" -> files \cup {VK_SYS}
      [] id \in {"git clone linux-rockchip", "git clone linux"} -> files \cup {dir \o "/linux"}
      [] id = "rm -rf build_dir" -> files \ {arg, arg \o "/linux"}
      [] id = "rm -rf /tmp/mali_install" -> files \ {MALI_DIR, FW_TMP, DRV_TMP, VK_TMP}
      [] OTHER -> files

\* what stands in the way of a command: cp exits non-zero when the file it
\* reads is missing, git clone when its destination directory exists
Blocked(id, dir, files) ==
    CASE id = "cp mali_csffw.bin /lib/firmware/" -> FW_TMP \notin files
      [] id = "cp libmali /usr/lib/" -> DRV_TMP \notin files
      [] id = "cp libmali-vulkan /usr/lib/" -> VK_TMP \notin files
      [] id \in {"git clone linux-rockchip", "git clone linux"} ->
           (dir \o "/linux") \in files
      [] OTHER -> FALSE

\* execute_command(cmd, show_output): runs the command, logs and returns -1
\* when system(3) returned non-zero, returns 0 otherwise
execute_command(r, id, arg, show_output, F) ==
    LET out == IF Blocked(id, r.cwd, r.fs)
               THEN (IF Outcome(F, id) = "bothfail" THEN "bothfail" ELSE "blocked")
               ELSE Outcome(F, id)
        ran == [r EXCEPT !.ev = Append(@, <<"cmd", id, arg, out,
                                           IF show_output THEN "tee" ELSE "quiet">>),
                         !.fs = IF out \in {"ok", "shfail", "partial"}
                                THEN Effect(id, arg, r.cwd, @) ELSE @]
    IN IF SystemResult(show_output, out) # 0
       THEN Return(log_message(ran, "ERROR", "Command failed"), -1)
       ELSE Return(ran, 0)

\* a file operation or check of the program itself (mkdir, fopen, stat ...)
Op(r, id, arg, out) ==
    [r EXCEPT !.ev = Append(@, <<"op", id, arg, out, "">>)]

\* create_directory(path): mkdir only when stat() does not find the path
create_directory(r, path, F) ==
    IF path \in r.fs THEN Return(r, 0)
    ELSE LET id == "mkdir " \o path
             out == Outcome(F, id)
             made == Op(r, id, "", out)
         IN IF out # "ok"
            THEN Return(log_message(made, "ERROR", "Failed to create directory"), -1)
            ELSE Return([made EXCEPT !.fs = @ \cup {path}], 0)

\* chdir(path) succeeds, and changes the working directory, when the
\* directory exists
chdir(r, path) ==
    IF path \in r.fs
    THEN Return([Op(r, "chdir", path, "ok") EXCEPT !.cwd = path], 0)
    ELSE Return(Op(r, "chdir", path, "fail"), -1)

(***************************************************************************)
(* The stage functions.                                                    *)
(***************************************************************************)
check_dependencies(F) ==
    LET r0 == Begin("check_dependencies")
        r1 == Op(r0, "stat /etc/debian_version", "", Outcome(F, "stat /etc/debian_version"))
    IN IF Outcome(F, "stat /etc/debian_version") # "ok"
       THEN Return(log_message(r1, "ERROR",
                       "This tool is designed for Ubuntu/Debian systems"), -1)
       ELSE LET r2 == Op(r1, "uname -m", "", Outcome(F, "uname -m"))
                r3 == IF Outcome(F, "uname -m") # "ok"
                      THEN log_message(r2, "WARNING", "Untested architecture detected")
                      ELSE r2
                r4 == Op(r3, "df /tmp", "", Outcome(F, "df /tmp"))
                r5 == IF Outcome(F, "df /tmp") # "ok"
                      THEN log_message(r4, "WARNING",
                               "Less than 10GB free space available in /tmp")
                      ELSE r4
            IN Return(r5, 0)

check_dependencies_steps == Plain({"stat /etc/debian_version", "uname -m", "df /tmp"})

check_root_permissions(F) ==
    LET r0 == Begin("check_root_permissions")
        r1 == Op(r0, "geteuid", "", Outcome(F, "geteuid"))
    IN IF Outcome(F, "geteuid") # "ok"
       THEN Return(log_message(r1, "ERROR",
                       "This tool requires root privileges. Please run with sudo."), -1)
       ELSE Return(r1, 0)

check_root_permissions_steps == Plain({"geteuid"})

setup_build_environment(F) ==
    LET r0 == log_message(Begin("setup_build_environment"), "INFO",
                          "Setting up build environment...")
        r1 == create_directory(r0, BUILD_DIR, F)
    IN IF r1.rc # 0 THEN Return(r1, -1)
       ELSE LET out == Outcome(F, "fopen log")
                r2 == [Op(r1, "fopen log", LOG_FILE, out)
                          EXCEPT !.log_fp = IF out = "ok" THEN "open" ELSE "null"]
                r3 == IF out # "ok"
                      THEN log_message(r2, "WARNING", "Could not open log file")
                      ELSE r2
                r4 == execute_command(r3, "apt update", "", TRUE, F)
            IN IF r4.rc # 0
               THEN Return(log_message(r4, "ERROR", "Failed to update package lists"), -1)
               ELSE Return(log_message(r4, "SUCCESS",
                               "Build environment setup completed"), 0)

setup_build_environment_steps ==
    Plain({"mkdir " \o BUILD_DIR, "fopen log"}) \cup Piped({"apt update"})

install_prerequisites(F) ==
    LET r0 == log_message(Begin("install_prerequisites"), "INFO",
                          "Installing build prerequisites...")
        r1 == execute_command(r0, "apt install", "", TRUE, F)
    IN IF r1.rc # 0
       THEN Return(log_message(r1, "ERROR", "Failed to install prerequisites"), -1)
       ELSE LET r2 == execute_command(r1, "apt build-dep", "", TRUE, F)
                r3 == IF r2.rc # 0
                      THEN log_message(r2, "WARNING",
                               "Failed to install some kernel build dependencies")
                      ELSE r2
            IN Return(log_message(r3, "SUCCESS",
                          "Prerequisites installed successfully"), 0)

install_prerequisites_steps == Piped({"apt install", "apt build-dep"})

\* if (execute_command(...) != 0) log_message("WARNING", ...): warn and go on
WarnIfFailed(r, message) ==
    IF r.rc # 0 THEN log_message(r, "WARNING", message) ELSE r

download_mali_blobs(cfg, F) ==
    LET r0 == log_message(Begin("download_mali_blobs"), "INFO",
                          "Downloading Mali G610 GPU blobs and libraries...")
        r1 == create_directory(r0, MALI_DIR, F)
    IN IF r1.rc # 0 THEN Return(r1, -1)
       ELSE LET r2 == chdir(r1, MALI_DIR) IN
       IF r2.rc # 0
       THEN Return(log_message(r2, "ERROR",
                       "Failed to change to Mali install directory"), -1)
       ELSE LET r3 == execute_command(
                          log_message(r2, "INFO", "Downloading Mali CSF firmware..."),
                          "wget mali_csffw.bin", "", TRUE, F) IN
       IF r3.rc # 0
       THEN Return(log_message(r3, "ERROR", "Failed to download Mali firmware"), -1)
       ELSE LET r4 == execute_command(
                          log_message(r3, "INFO", "Downloading Mali userspace driver..."),
                          "wget libmali", "", TRUE, F) IN
       IF r4.rc # 0
       THEN Return(log_message(r4, "ERROR",
                       "Failed to download Mali userspace driver"), -1)
       ELSE LET r5 == IF cfg.enable_vulkan
                      THEN WarnIfFailed(
                               execute_command(
                                   log_message(r4, "INFO",
                                       "Downloading Mali Vulkan-enabled driver..."),
                                   "wget libmali-vulkan", "", TRUE, F),
                               "Failed to download Mali Vulkan driver, using standard version")
                      ELSE r4
                r6 == WarnIfFailed(
                          execute_command(
                              log_message(r5, "INFO",
                                  "Downloading additional Mali components..."),
                              "git clone libmali-rockchip", "", TRUE, F),
                          "Failed to download additional Mali components")
            IN Return(log_message(r6, "SUCCESS",
                          "Mali GPU blobs downloaded successfully"), 0)

download_mali_blobs_steps ==
    Plain({"mkdir " \o MALI_DIR})
      \cup Piped({"wget mali_csffw.bin", "wget libmali", "wget libmali-vulkan",
                  "git clone libmali-rockchip"})
      \cup Partial({"wget mali_csffw.bin", "wget libmali", "wget libmali-vulkan"})

\* const char *mali_links[]: the names linked to the driver, in table order
mali_links ==
    <<"libMali.so", "libMali.so.1", "libmali.so", "libmali.so.1", "libEGL.so.1",
      "libGLESv1_CM.so.1", "libGLESv2.so.2", "libgbm.so.1">>

\* for (i = 0; mali_links[i] != NULL; i++): every link is tried, a failure warns
RECURSIVE CreateLinks(_, _, _)
CreateLinks(r, k, F) ==
    IF k > Len(mali_links) THEN r
    ELSE CreateLinks(
             WarnIfFailed(execute_command(r, "ln -sf " \o mali_links[k], "", FALSE, F),
                          "Failed to create some Mali symbolic links"),
             k + 1, F)

\* if (config->enable_vulkan) { if (access(variant) == 0) { cp; else ln } }
InstallVulkanDriver(cfg, r, F) ==
    IF cfg.enable_vulkan /\ VK_TMP \in r.fs
    THEN LET c == execute_command(
                      log_message(r, "INFO", "Installing Mali Vulkan driver..."),
                      "cp libmali-vulkan /usr/lib/", "", TRUE, F)
         IN IF c.rc # 0
            THEN log_message(c, "WARNING", "Failed to install Mali Vulkan driver")
            ELSE execute_command(c, "ln -sf libvulkan_mali.so", "", FALSE, F)
    ELSE r

install_mali_drivers(cfg, F) ==
    LET r0 == log_message(Begin("install_mali_drivers"), "INFO",
                          "Installing Mali G610 drivers and firmware...")
        r1 == execute_command(r0, "cp mali_csffw.bin /lib/firmware/", "", TRUE, F)
    IN IF r1.rc # 0
       THEN Return(log_message(r1, "ERROR", "Failed to install Mali firmware"), -1)
       ELSE LET r2 == execute_command(r1, "cp libmali /usr/lib/", "", TRUE, F) IN
       IF r2.rc # 0
       THEN Return(log_message(r2, "ERROR",
                       "Failed to install Mali userspace driver"), -1)
       ELSE LET r3 == CreateLinks(
                          log_message(r2, "INFO", "Creating Mali driver symbolic links..."),
                          1, F)
                r4 == InstallVulkanDriver(cfg, r3, F)
                r5 == WarnIfFailed(execute_command(r4, "ldconfig", "", TRUE, F),
                                   "Failed to update library cache")
            IN Return(log_message(r5, "SUCCESS",
                          "Mali drivers installed successfully"), 0)

install_mali_drivers_steps ==
    Piped({"cp mali_csffw.bin /lib/firmware/", "cp libmali /usr/lib/",
           "cp libmali-vulkan /usr/lib/", "ldconfig"})
      \cup Plain({"ln -sf " \o mali_links[k] : k \in 1..Len(mali_links)})
      \cup Plain({"ln -sf libvulkan_mali.so"})

\* fopen(path, "w"), the descriptor text, fclose: the file exists afterwards
WriteDescriptor(r, path, text) ==
    [Op(r, "write " \o path, text, "ok") EXCEPT !.fs = @ \cup {path}]

setup_opencl_support(cfg, F) ==
    LET r0 == Begin("setup_opencl_support") IN
    IF ~cfg.enable_opencl THEN Return(r0, 0)
    ELSE LET r1 == create_directory(
                       log_message(r0, "INFO",
                           "Setting up OpenCL support for Mali G610..."),
                       OPENCL_DIR, F) IN
    IF r1.rc # 0 THEN Return(r1, -1)
    ELSE LET out == Outcome(F, "fopen mali.icd")
             r2 == Op(r1, "fopen mali.icd", OPENCL_ICD, out) IN
    IF out # "ok"
    THEN Return(log_message(r2, "ERROR", "Failed to create Mali OpenCL ICD file"), -1)
    ELSE LET r3 == WriteDescriptor(r2, OPENCL_ICD, DRV_SYS)
             r4 == execute_command(r3, "chmod 644 mali.icd", "", FALSE, F)
         IN Return(log_message(r4, "SUCCESS",
                       "OpenCL support configured successfully"), 0)

setup_opencl_support_steps ==
    Plain({"mkdir " \o OPENCL_DIR, "fopen mali.icd", "chmod 644 mali.icd"})

setup_vulkan_support(cfg, F) ==
    LET r0 == Begin("setup_vulkan_support") IN
    IF ~cfg.enable_vulkan THEN Return(r0, 0)
    ELSE LET r1 == create_directory(
                       log_message(r0, "INFO",
                           "Setting up Vulkan support for Mali G610..."),
                       VULKAN_DIR, F) IN
    IF r1.rc # 0 THEN Return(r1, -1)
    ELSE LET out == Outcome(F, "fopen mali.json")
             r2 == Op(r1, "fopen mali.json", VULKAN_ICD, out) IN
    IF out # "ok"
    THEN Return(log_message(r2, "ERROR", "Failed to create Mali Vulkan ICD file"), -1)
    ELSE LET r3 == WriteDescriptor(r2, VULKAN_ICD,
                                   IF VK_SYS \in r2.fs THEN VK_SYS ELSE DRV_SYS)
             r4 == execute_command(r3, "chmod 644 mali.json", "", FALSE, F)
         IN Return(log_message(r4, "SUCCESS",
                       "Vulkan support configured successfully"), 0)

setup_vulkan_support_steps ==
    Plain({"mkdir " \o VULKAN_DIR, "fopen mali.json", "chmod 644 mali.json"})

download_kernel_source(cfg, F) ==
    LET r0 == log_message(Begin("download_kernel_source"), "INFO",
                          "Downloading kernel source...")
        r1 == chdir(r0, cfg.build_dir)
    IN IF r1.rc # 0
       THEN Return(log_message(r1, "ERROR", "Failed to change to build directory"), -1)
       ELSE LET r2 == execute_command(r1, "git clone linux-rockchip",
                                      "ubuntu-rockchip-6.8-opi5", TRUE, F) IN
       IF r2.rc = 0
       THEN Return(log_message(r2, "SUCCESS",
                       "Kernel source downloaded successfully"), 0)
       ELSE LET r3 == execute_command(
                          log_message(r2, "WARNING",
                              "Failed to clone Ubuntu Rockchip kernel, trying mainline..."),
                          "git clone linux", "v" \o cfg.kernel_version, TRUE, F) IN
       IF r3.rc # 0
       THEN Return(log_message(r3, "ERROR", "Failed to download kernel source"), -1)
       ELSE Return(log_message(r3, "SUCCESS",
                       "Kernel source downloaded successfully"), 0)

download_kernel_source_steps == Piped({"git clone linux-rockchip", "git clone linux"})

download_ubuntu_rockchip_patches(F) ==
    LET r0 == log_message(Begin("download_ubuntu_rockchip_patches"), "INFO",
                          "Downloading Ubuntu Rockchip patches...")
        r1 == execute_command(r0, "git clone ubuntu-rockchip", "", TRUE, F)
    IN IF r1.rc # 0
       THEN Return(log_message(r1, "WARNING",
                       "Failed to download Ubuntu Rockchip patches"), 0)
       ELSE Return(log_message(r1, "SUCCESS", "Ubuntu Rockchip patches downloaded"), 0)

download_ubuntu_rockchip_patches_steps == Piped({"git clone ubuntu-rockchip"})

\* if (config->clean_build) make mrproper, a failure only warns
CleanArtifacts(cfg, r, F) ==
    IF cfg.clean_build
    THEN WarnIfFailed(
             execute_command(
                 log_message(r, "INFO", "Cleaning previous build artifacts..."),
                 "make mrproper", "", TRUE, F),
             "Failed to clean build artifacts")
    ELSE r

\* fopen(".config", "a"); the config_options[] block; fclose.  Nothing is
\* written and nothing is logged when the file cannot be opened.
AppendConfigOptions(r, F) ==
    LET out == Outcome(F, "fopen .config")
        opened == Op(r, "fopen .config", "", out)
    IN IF out = "ok" THEN Op(opened, "append .config", "config_options", "ok")
       ELSE opened

\* the rest of configure_kernel() once a configuration target has succeeded
FinishConfigure(r, F) ==
    LET r1 == AppendConfigOptions(
                  log_message(r, "INFO",
                      "Enabling RK3588, Mali GPU, and hardware acceleration configurations..."),
                  F)
        r2 == WarnIfFailed(execute_command(r1, "make olddefconfig", "", TRUE, F),
                           "Failed to resolve config dependencies")
    IN Return(log_message(r2, "SUCCESS",
                  "Kernel configured successfully with Mali GPU support"), 0)

configure_kernel(cfg, F) ==
    LET r0 == log_message(Begin("configure_kernel"), "INFO",
                          "Configuring kernel with Mali GPU support...")
        r1 == chdir(r0, cfg.build_dir \o "/linux")
    IN IF r1.rc # 0
       THEN Return(log_message(r1, "ERROR", "Failed to change to kernel directory"), -1)
       ELSE LET r2 == CleanArtifacts(cfg, r1, F)
                r3 == execute_command(r2, "make board_defconfig", cfg.defconfig, TRUE, F)
            IN
       IF r3.rc = 0 THEN FinishConfigure(r3, F)
       ELSE LET r4 == execute_command(
                          log_message(r3, "WARNING",
                              "Failed to use specific defconfig, trying generic..."),
                          "make defconfig", "", TRUE, F) IN
       IF r4.rc # 0
       THEN Return(log_message(r4, "ERROR", "Failed to configure kernel"), -1)
       ELSE FinishConfigure(r4, F)

configure_kernel_steps ==
    Piped({"make mrproper", "make board_defconfig", "make defconfig",
           "make olddefconfig"})
      \cup Plain({"fopen .config"})

build_kernel(cfg, F) ==
    LET r0 == log_message(Begin("build_kernel"), "INFO",
                  "Building kernel with Mali GPU support (this may take a while)...")
        r1 == execute_command(r0, "make Image", ToString(cfg.jobs), TRUE, F)
    IN IF r1.rc # 0
       THEN Return(log_message(r1, "ERROR", "Failed to build kernel image"), -1)
       ELSE LET r2 == execute_command(r1, "make dtbs", ToString(cfg.jobs), TRUE, F) IN
       IF r2.rc # 0
       THEN Return(log_message(r2, "ERROR", "Failed to build device tree blobs"), -1)
       ELSE LET r3 == execute_command(r2, "make modules", ToString(cfg.jobs), TRUE, F) IN
       IF r3.rc # 0
       THEN Return(log_message(r3, "ERROR", "Failed to build kernel modules"), -1)
       ELSE Return(log_message(r3, "SUCCESS",
                       "Kernel built successfully with Mali GPU support"), 0)

build_kernel_steps == Piped({"make Image", "make dtbs", "make modules"})

install_kernel(cfg, F) ==
    LET r0 == log_message(Begin("install_kernel"), "INFO",
                          "Installing kernel and Mali GPU modules...")
        r1 == execute_command(r0, "make modules_install", "", TRUE, F)
    IN IF r1.rc # 0
       THEN Return(log_message(r1, "ERROR", "Failed to install kernel modules"), -1)
       ELSE LET r2 == WarnIfFailed(
                          execute_command(r1, "make dtbs_install", "", TRUE, F),
                          "Failed to install device tree blobs")
                r3 == execute_command(r2, "cp Image /boot/vmlinuz", cfg.kernel_version,
                                      TRUE, F)
            IN
       IF r3.rc # 0
       THEN Return(log_message(r3, "ERROR", "Failed to copy kernel image"), -1)
       ELSE LET r4 == WarnIfFailed(
                          execute_command(r3, "cp System.map /boot/System.map",
                                          cfg.kernel_version, TRUE, F),
                          "Failed to copy System.map")
                r5 == WarnIfFailed(
                          execute_command(r4, "cp .config /boot/config",
                                          cfg.kernel_version, TRUE, F),
                          "Failed to copy kernel config")
                r6 == WarnIfFailed(
                          execute_command(r5, "update-initramfs", cfg.kernel_version,
                                          TRUE, F),
                          "Failed to update initramfs")
                r7 == WarnIfFailed(execute_command(r6, "u-boot-update", "", TRUE, F),
                                   "Failed to update u-boot configuration")
            IN Return(log_message(r7, "SUCCESS",
                          "Kernel installed successfully with Mali GPU support"), 0)

install_kernel_steps ==
    Piped({"make modules_install", "make dtbs_install", "cp Image /boot/vmlinuz",
           "cp System.map /boot/System.map", "cp .config /boot/config",
           "update-initramfs", "u-boot-update"})

\* if (access(icd) == 0) grep the tool's output for the vendor string
TestApi(r, icd, id, info, found, missing, F) ==
    IF icd \in r.fs
    THEN LET t == execute_command(log_message(r, "INFO", info), id, "", FALSE, F)
         IN IF t.rc = 0 THEN log_message(t, "SUCCESS", found)
            ELSE log_message(t, "WARNING", missing)
    ELSE r

verify_gpu_installation(F) ==
    LET r0 == log_message(Begin("verify_gpu_installation"), "INFO",
                          "Verifying Mali GPU installation...")
    IN IF FW_SYS \notin r0.fs
       THEN Return(log_message(r0, "ERROR", "Mali firmware not found"), -1)
       ELSE IF DRV_SYS \notin r0.fs
       THEN Return(log_message(r0, "ERROR", "Mali driver library not found"), -1)
       ELSE LET r1 == TestApi(r0, OPENCL_ICD, "clinfo | grep -i mali",
                              "Testing OpenCL functionality...",
                              "OpenCL Mali support detected",
                              "OpenCL Mali support not detected (may need reboot)", F)
                r2 == TestApi(r1, VULKAN_ICD, "vulkaninfo | grep -i mali",
                              "Testing Vulkan functionality...",
                              "Vulkan Mali support detected",
                              "Vulkan Mali support not detected (may need reboot)", F)
            IN Return(log_message(r2, "SUCCESS",
                          "GPU installation verification completed"), 0)

verify_gpu_installation_steps ==
    Plain({"clinfo | grep -i mali", "vulkaninfo | grep -i mali"})

cleanup_build_stops(cfg, F) ==
    LET r0 == log_message(Begin("cleanup_build"), "INFO",
                          "Cleaning up build artifacts...")
        r1 == execute_command(r0, "rm -rf build_dir", cfg.build_dir, FALSE, F)
    IN IF r1.rc # 0
       THEN Return(log_message(r1, "WARNING", "Failed to cleanup build directory"), -1)
       ELSE LET r2 == WarnIfFailed(
                          execute_command(r1, "rm -rf /tmp/mali_install", "", FALSE, F),
                          "Failed to cleanup Mali install directory")
            IN Return(log_message(r2, "SUCCESS", "Cleanup completed"), 0)

cleanup_build(cfg, F) ==
    LET r0 == log_message(Begin("cleanup_build"), "INFO",
                          "Cleaning up build artifacts...")
        r1 == WarnIfFailed(execute_command(r0, "rm -rf build_dir", cfg.build_dir, FALSE, F),
                           "Failed to cleanup build directory")
        r2 == WarnIfFailed(execute_command(r1, "rm -rf /tmp/mali_install", "", FALSE, F),
                           "Failed to cleanup Mali install directory")
    IN Return(log_message(r2, "SUCCESS", "Cleanup completed"), 0)

cleanup_build_steps == Plain({"rm -rf build_dir", "rm -rf /tmp/mali_install"})

(***************************************************************************)
(* main(): the argument loop.                                              *)
(***************************************************************************)
Event(kind, id) == <<kind, id, "", "", "">>

\* one iteration of for (i = 1; i < argc; i++) on a token other than help
ParseArg ==
    /\ pc = "parse"
    /\ i <= Len(argv)
    /\ argv[i] \notin HelpFlags
    /\ config' = ApplyToken(config, i)
    /\ no_install' = (no_install \/ argv[i] = "--no-install")
    /\ cleanup' = (cleanup \/ argv[i] = "--cleanup")
    /\ verify_gpu' = (verify_gpu \/ argv[i] = "--verify-gpu")
    /\ i' = Advance(i)
    /\ UNCHANGED <<argv, nproc, pc, fs, cwd, log_fp, trace, faults_left,
                   exit_status,
                   package_manager, fs0>>

\* -h, --help: print_usage(argv[0]); return 0;
ParseHelpLate ==
    /\ pc = "parse"
    /\ i <= Len(argv)
    /\ argv[i] \in HelpFlags
    /\ trace' = Append(trace, Event("print", "usage"))
    /\ i' = i + 1
    /\ UNCHANGED <<argv, config, no_install, cleanup, verify_gpu, nproc, pc, fs,
                   cwd, log_fp, faults_left, exit_status,
                   package_manager, fs0>>

ParseHelp ==
    /\ pc = "parse"
    /\ i <= Len(argv)
    /\ argv[i] \in HelpFlags
    /\ trace' = Append(trace, Event("print", "usage"))
    /\ pc' = "exit"
    /\ exit_status' = 0
    /\ UNCHANGED <<argv, i, config, no_install, cleanup, verify_gpu, nproc, fs,
                   cwd, log_fp, faults_left,
                   package_manager, fs0>>

\* the loop ends; if (config.jobs == 0) config.jobs = sysconf(_SC_NPROCESSORS_ONLN)
SetDefaultJobsAlways ==
    /\ pc = "parse"
    /\ i > Len(argv)
    /\ config' = [config EXCEPT !.jobs = nproc]
    /\ pc' = "check_dependencies"
    /\ UNCHANGED <<argv, i, no_install, cleanup, verify_gpu, nproc, fs, cwd,
                   log_fp, trace, faults_left, exit_status,
                   package_manager, fs0>>

SetDefaultJobs ==
    /\ pc = "parse"
    /\ i > Len(argv)
    /\ config' = IF config.jobs = 0 THEN [config EXCEPT !.jobs = nproc] ELSE config
    /\ pc' = "check_dependencies"
    /\ UNCHANGED <<argv, i, no_install, cleanup, verify_gpu, nproc, fs, cwd,
                   log_fp, trace, faults_left, exit_status,
                   package_manager, fs0>>

(***************************************************************************)
(* main(): the calls of the stage functions.  Took(r, F) is the step of a  *)
(* stage that ran as r under the faults F; each fault of F happened in it. *)
(***************************************************************************)
Took(r, F) ==
    /\ Used(F, r.ev) = Cardinality(F)
    /\ trace' = trace \o r.ev
    /\ fs' = r.fs
    /\ cwd' = r.cwd
    /\ log_fp' = r.log_fp
    /\ faults_left' = faults_left - Cardinality(F)

\* a stage that clears config->clean_build once it has run
StageConsumingClean(r, F, next) ==
    /\ Took(r, F)
    /\ pc' = IF r.rc # 0 THEN "error" ELSE next
    /\ config' = [config EXCEPT !.clean_build = FALSE]
    /\ UNCHANGED <<argv, i, no_install, cleanup, verify_gpu, nproc,
                   exit_status,
                   package_manager, fs0>>

\* if (stage() != 0) goto error; the next stage otherwise
Stage(r, F, next) ==
    /\ Took(r, F)
    /\ pc' = IF r.rc # 0 THEN "error" ELSE next
    /\ UNCHANGED <<argv, i, config, no_install, cleanup, verify_gpu, nproc,
                   exit_status,
                   package_manager, fs0>>

\* if (check() != 0) return 1; the next check otherwise
Check(r, F, next) ==
    /\ Took(r, F)
    /\ pc' = IF r.rc # 0 THEN "exit" ELSE next
    /\ exit_status' = IF r.rc # 0 THEN 1 ELSE exit_status
    /\ UNCHANGED <<argv, i, config, no_install, cleanup, verify_gpu, nproc,
                   package_manager, fs0>>

CheckDependencies ==
    /\ pc = "check_dependencies"
    /\ \E F \in FaultSets(check_dependencies_steps, faults_left) :
           Check(check_dependencies(F), F, "check_root_permissions")

\* the root check, then the start record and the configuration summary
StartBuild(r) ==
    IF r.rc # 0 THEN r
    ELSE [log_message(r, "INFO",
              "Starting Orange Pi 5 Plus kernel build process with Mali GPU support")
             EXCEPT !.ev = Append(@, Event("print", "Build Configuration"))]

CheckRootPermissions ==
    /\ pc = "check_root_permissions"
    /\ \E F \in FaultSets(check_root_permissions_steps, faults_left) :
           Check(StartBuild(check_root_permissions(F)), F, "setup_build_environment")

SetupBuildEnvironment ==
    /\ pc = "setup_build_environment"
    /\ \E F \in FaultSets(setup_build_environment_steps, faults_left) :
           Stage(setup_build_environment(F), F, "install_prerequisites")

\* if (config.install_gpu_blobs) { the four GPU stages }
AfterPrerequisitesNoGpu == "download_kernel_source"

AfterPrerequisitesAlwaysGpu == "download_mali_blobs"

AfterPrerequisites ==
    IF config.install_gpu_blobs THEN "download_mali_blobs" ELSE "download_kernel_source"

InstallPrerequisites ==
    /\ pc = "install_prerequisites"
    /\ \E F \in FaultSets(install_prerequisites_steps, faults_left) :
           Stage(install_prerequisites(F), F, AfterPrerequisites)

DownloadMaliBlobs ==
    /\ pc = "download_mali_blobs"
    /\ \E F \in FaultSets(download_mali_blobs_steps, faults_left) :
           Stage(download_mali_blobs(config, F), F, "install_mali_drivers")

InstallMaliDrivers ==
    /\ pc = "install_mali_drivers"
    /\ \E F \in FaultSets(install_mali_drivers_steps, faults_left) :
           Stage(install_mali_drivers(config, F), F, "setup_opencl_support")

SetupOpenclSupport ==
    /\ pc = "setup_opencl_support"
    /\ \E F \in FaultSets(setup_opencl_support_steps, faults_left) :
           Stage(setup_opencl_support(config, F), F, "setup_vulkan_support")

\* if (setup_vulkan_support(&config) != 0) goto error;
SetupVulkanSupportNonFatal ==
    /\ pc = "setup_vulkan_support"
    /\ \E F \in FaultSets(setup_vulkan_support_steps, faults_left) :
           Stage(Return(setup_vulkan_support(config, F), 0), F, "download_kernel_source")

SetupVulkanSupport ==
    /\ pc = "setup_vulkan_support"
    /\ \E F \in FaultSets(setup_vulkan_support_steps, faults_left) :
           Stage(setup_vulkan_support(config, F), F, "download_kernel_source")

DownloadKernelSource ==
    /\ pc = "download_kernel_source"
    /\ \E F \in FaultSets(download_kernel_source_steps, faults_left) :
           Stage(download_kernel_source(config, F), F, "download_ubuntu_rockchip_patches")

\* download_ubuntu_rockchip_patches(); // Non-critical: the value is dropped
DownloadUbuntuRockchipPatches ==
    /\ pc = "download_ubuntu_rockchip_patches"
    /\ \E F \in FaultSets(download_ubuntu_rockchip_patches_steps, faults_left) :
           Stage(Return(download_ubuntu_rockchip_patches(F), 0), F, "configure_kernel")

ConfigureKernel ==
    /\ pc = "configure_kernel"
    /\ \E F \in FaultSets(configure_kernel_steps, faults_left) :
           Stage(configure_kernel(config, F), F, "build_kernel")

\* if (!no_install) { install_kernel ... }  if (cleanup) ...
AfterInstall == IF cleanup THEN "cleanup_build" ELSE "success"

AfterBuildInstall == "install_kernel"

AfterBuild == IF ~no_install THEN "install_kernel" ELSE AfterInstall

BuildKernel ==
    /\ pc = "build_kernel"
    /\ \E F \in FaultSets(build_kernel_steps, faults_left) :
           Stage(build_kernel(config, F), F, AfterBuild)

\* if (verify_gpu && config.install_gpu_blobs) verify_gpu_installation();
AfterInstallKernel ==
    IF verify_gpu /\ config.install_gpu_blobs THEN "verify_gpu_installation"
    ELSE AfterInstall

InstallKernel ==
    /\ pc = "install_kernel"
    /\ \E F \in FaultSets(install_kernel_steps, faults_left) :
           Stage(install_kernel(config, F), F, AfterInstallKernel)

\* the value of verify_gpu_installation() is dropped
VerifyGpuInstallationFatal ==
    /\ pc = "verify_gpu_installation"
    /\ \E F \in FaultSets(verify_gpu_installation_steps, faults_left) :
           Stage(verify_gpu_installation(F), F, AfterInstall)

VerifyGpuInstallation ==
    /\ pc = "verify_gpu_installation"
    /\ \E F \in FaultSets(verify_gpu_installation_steps, faults_left) :
           Stage(Return(verify_gpu_installation(F), 0), F, AfterInstall)

\* the value of cleanup_build() is dropped
CleanupBuild ==
    /\ pc = "cleanup_build"
    /\ \E F \in FaultSets(cleanup_build_steps, faults_left) :
           Stage(Return(cleanup_build(config, F), 0), F, "success")

\* if (log_fp) fclose(log_fp);
CloseLogNever(r) == r

CloseLog(r) ==
    IF r.log_fp = "open"
    THEN [Op(r, "fclose log", "", "ok") EXCEPT !.log_fp = "closed"]
    ELSE r

Leave(r, status) ==
    /\ trace' = trace \o Tail(r.ev)
    /\ log_fp' = r.log_fp
    /\ pc' = "exit"
    /\ exit_status' = status
    /\ UNCHANGED <<argv, i, config, no_install, cleanup, verify_gpu, nproc, fs,
                   cwd, faults_left,
                   package_manager, fs0>>

\* a success path without its return: control runs on into the error label
SuccessFallingThrough ==
    /\ pc = "success"
    /\ LET r == [log_message(Begin("main"), "SUCCESS",
                     "Kernel build process completed successfully!")
                    EXCEPT !.ev = Append(@, Event("print", "Next steps"))]
       IN trace' = trace \o Tail(r.ev)
    /\ pc' = "error"
    /\ UNCHANGED <<argv, i, config, no_install, cleanup, verify_gpu, nproc, fs,
                   cwd, log_fp, faults_left, exit_status,
                   package_manager, fs0>>

\* the end of main() on the success path: return 0
Success ==
    /\ pc = "success"
    /\ Leave(CloseLog(
                 [log_message(Begin("main"), "SUCCESS",
                      "Kernel build process completed successfully!")
                     EXCEPT !.ev = Append(@, Event("print", "Next steps"))]), 0)

\* an error path that removes the build directory before it returns
ErrorRemovingBuildDir ==
    /\ pc = "error"
    /\ LET r == CloseLog(
                 [log_message(Begin("main"), "ERROR", "Kernel build process failed!")
                     EXCEPT !.ev = Append(@, Event("print", "Troubleshooting"))])
       IN /\ trace' = trace \o Tail(r.ev)
          /\ log_fp' = r.log_fp
    /\ fs' = Effect("rm -rf build_dir", config.build_dir, cwd, fs)
    /\ pc' = "exit"
    /\ exit_status' = 1
    /\ UNCHANGED <<argv, i, config, no_install, cleanup, verify_gpu, nproc,
                   cwd, faults_left,
                   package_manager, fs0>>

\* error: the end of main() after a goto error: return 1
Error ==
    /\ pc = "error"
    /\ Leave(CloseLog(
                 [log_message(Begin("main"), "ERROR", "Kernel build process failed!")
                     EXCEPT !.ev = Append(@, Event("print", "Troubleshooting"))]), 1)

Next ==
    \/ ParseArg
    \/ ParseHelp
    \/ SetDefaultJobs
    \/ CheckDependencies
    \/ CheckRootPermissions
    \/ SetupBuildEnvironment
    \/ InstallPrerequisites
    \/ DownloadMaliBlobs
    \/ InstallMaliDrivers
    \/ SetupOpenclSupport
    \/ SetupVulkanSupport
    \/ DownloadKernelSource
    \/ DownloadUbuntuRockchipPatches
    \/ ConfigureKernel
    \/ BuildKernel
    \/ InstallKernel
    \/ VerifyGpuInstallation
    \/ CleanupBuild
    \/ Success
    \/ Error

(***************************************************************************)
(* The runs that are checked.                                              *)
(***************************************************************************)
\* the processor counts sysconf() reports
NProcs == {2, 4}

\* what is on disk before the run: a fresh machine, one with the build
\* directories of an earlier run, one with the Vulkan driver already installed
InitialFileSystems == {{}, {BUILD_DIR, CUSTOM_DIR}, {VK_SYS}}

\* the command lines under which failing steps are explored
CommandLines ==
    {<<>>, <<"--disable-gpu">>, <<"--disable-opencl">>, <<"--disable-vulkan">>,
     <<"--no-install">>, <<"--cleanup">>, <<"--verify-gpu">>, <<"--clean">>,
     <<"--help">>, <<"--bogus">>, <<"-d", CUSTOM_DIR>>,
     <<"--no-install", "--verify-gpu">>, <<"--disable-gpu", "--enable-opencl">>,
     <<"-v", "6.10.0">>, <<"--verify-gpu", "--cleanup">>}

Start ==
    /\ i = 1
    /\ config = DefaultConfig
    /\ no_install = FALSE
    /\ cleanup = FALSE
    /\ verify_gpu = FALSE
    /\ pc = "parse"
    /\ cwd = "/"
    /\ log_fp = "null"
    /\ trace = <<Event("print", "header")>>
    /\ exit_status = -1
    /\ package_manager = ""

\* Spec: the command lines above, with up to MaxFaults failing steps
Init ==
    /\ argv \in CommandLines
    /\ nproc \in NProcs
    /\ fs \in InitialFileSystems
    /\ fs0 = fs
    /\ faults_left = MaxFaults
    /\ Start

Spec == Init /\ [][Next]_vars

\* SpecLive: the runs of Spec on a fresh machine with four processors in
\* which main() runs on until it returns, every external command returning
InitLive ==
    /\ argv \in CommandLines
    /\ nproc = 4
    /\ fs = {}
    /\ fs0 = fs
    /\ faults_left = MaxFaults
    /\ Start

\* WF_vars(Next), with ENABLED <<Next>>_vars written as what it is in this
\* program: main() can take a step exactly when it has not returned
MainRunsOn == []<>(pc = "exit") \/ []<><<Next>>_vars

SpecLive == InitLive /\ [][Next]_vars /\ MainRunsOn

\* longer command lines: a flag given twice, a value flag that ends the line
RepeatedFlags ==
    {<<"-j", "8", "-j", "0">>, <<"-j", "0", "--jobs", "8">>, <<"-j", "8", "-j">>,
     <<"-v", "6.10.0", "-d", CUSTOM_DIR, "--defconfig">>,
     <<"-j", "--help", "--cross-compile">>}

\* SpecParse: every command line of up to MaxArgs tokens and the longer ones
\* above, no failing step
InitParse ==
    /\ argv \in SeqsUpTo(Tokens, MaxArgs) \cup RepeatedFlags
    /\ nproc \in NProcs
    /\ fs = {}
    /\ fs0 = fs
    /\ faults_left = 0
    /\ Start

SpecParse == InitParse /\ [][Next]_vars

(***************************************************************************)
(* The installer (installer.c).  Its main() parses its own flags, opens    *)
(* its log and calls the stage functions below.  Its execute_command()     *)
(* hands the command to system(3) as it is, so what it returns is the      *)
(* command's own status.                                                   *)
(***************************************************************************)
KERNEL_BUILDER_NAME == "orangepi-kernel-builder"
INSTALL_DIR == "/usr/local/bin"
INSTALLER_LOG == "/tmp/orangepi-installer.log"
\* where the installer is started, and a directory given on the command line
SOURCE_DIR == "/home/user/src"
OTHER_DIR == "/opt/tools"
\* char *pm in detect_package_manager(), in the order it is searched
PackageManagers == <<"apt", "yum", "dnf", "pacman", "zypper">>
Which(pm) == "/usr/bin/" \o pm
\* lines of the shell rc file: the alias block setup_shell_integration()
\* writes (each of its alias lines names the tool), the same block a second
\* time, a line of the user's that names the tool, and a line of the user's
\* longer than the line buffer in which the name lies across the place where
\* fgets() cuts it
ALIASES == "~/.profile: orangepi-kernel-builder"
ALIASES_AGAIN == "~/.profile: orangepi-kernel-builder, second alias block"
MENTION == "~/.profile: # orangepi-kernel-builder"
LONG_MENTION == "~/.profile: 1010 characters, then orangepi-kernel-builder"
AliasBlocks(files) == Cardinality(files \cap {ALIASES, ALIASES_AGAIN})
NamesTool(files) == files \cap {ALIASES, ALIASES_AGAIN, MENTION, LONG_MENTION} # {}
\* while (fgets(line, sizeof(line), file)) if (strstr(line, "orangepi-kernel-builder"))
aliases_exist(files) == files \cap {ALIASES, ALIASES_AGAIN, MENTION} # {}
\* fputs(aliases, file) on the file opened with "a"
AppendAliases(files) == files \cup {IF ALIASES \in files THEN ALIASES_AGAIN ELSE ALIASES}

InstallerValueFlags == {"--install-dir", "--source-dir"}
InstallerToggleFlags == {"--skip-desktop", "--skip-shell", "--verbose", "--force"}
InstallerKnownFlags == HelpFlags \cup InstallerValueFlags \cup InstallerToggleFlags
InstallerTokens == InstallerKnownFlags \cup {"--bogus", OTHER_DIR}

InstallerApplyToken(cfg, k) ==
    LET tok == argv[k] IN
    CASE tok = "--install-dir" ->
           IF HasValue(k) THEN [cfg EXCEPT !.install_dir = argv[k + 1]] ELSE cfg
      [] tok = "--source-dir" ->
           IF HasValue(k) THEN [cfg EXCEPT !.source_dir = argv[k + 1]] ELSE cfg
      [] tok = "--skip-desktop" -> [cfg EXCEPT !.skip_desktop = TRUE]
      [] tok = "--skip-shell" -> [cfg EXCEPT !.skip_shell = TRUE]
      [] tok = "--verbose" -> [cfg EXCEPT !.verbose = TRUE]
      [] tok = "--force" -> [cfg EXCEPT !.force_install = TRUE]

InstallerAdvance(k) == IF argv[k] \in InstallerValueFlags THEN k + 2 ELSE k + 1

\* the files a command of the installer leaves behind when it succeeds
InstallerEffect(id, arg, files) ==
    IF id = "gcc" THEN files \cup {arg} ELSE files

\* execute_command(cmd, show_output) of installer.c: result = system(cmd)
installer_execute_command(r, id, arg, show_output, F) ==
    LET out == Outcome(F, id)
        ran == [r EXCEPT !.ev = Append(@, <<"cmd", id, arg, out,
                                           IF show_output THEN "shown" ELSE "quiet">>),
                         !.fs = IF out = "ok" THEN InstallerEffect(id, arg, @) ELSE @]
    IN IF out # "ok"
       THEN Return(log_message(ran, "ERROR", "Command failed with exit code"), -1)
       ELSE Return(ran, 0)

installer_create_directory(r, path, F) ==
    IF path \in r.fs THEN Return(r, 0)
    ELSE LET id == "mkdir " \o path
             out == Outcome(F, id)
             made == Op(r, id, "", out)
         IN IF out # "ok"
            THEN Return(log_message(made, "ERROR", "Failed to create directory"), -1)
            ELSE Return([made EXCEPT !.fs = @ \cup {path}], 0)

\* copy_file(src, dest): fopen(src, "rb"), fopen(dest, "wb"), the copy loop
copy_file(r, src, dest, F) ==
    LET r1 == Op(r, "fopen source", src, IF src \in r.fs THEN "ok" ELSE "fail") IN
    IF src \notin r.fs
    THEN Return(log_message(r1, "ERROR", "Cannot open source file"), -1)
    ELSE LET r2 == Op(r1, "fopen destination", dest, Outcome(F, "fopen destination")) IN
    IF Outcome(F, "fopen destination") # "ok"
    THEN Return(log_message(r2, "ERROR", "Cannot create destination file"), -1)
    ELSE LET r3 == [Op(r2, "fwrite destination", dest, Outcome(F, "fwrite destination"))
                       EXCEPT !.fs = @ \cup {dest}] IN
    IF Outcome(F, "fwrite destination") # "ok"
    THEN Return(log_message(r3, "ERROR", "Error writing to destination file"), -1)
    ELSE Return(r3, 0)

installer_check_root_permissions(F) ==
    LET r0 == Begin("check_root_permissions")
        r1 == Op(r0, "geteuid", "", Outcome(F, "geteuid"))
    IN IF Outcome(F, "geteuid") # "ok"
       THEN Return(log_message(r1, "ERROR",
                       "This installer requires root privileges. Please run with sudo."), -1)
       ELSE Return(r1, 0)

installer_check_root_permissions_steps == Plain({"geteuid"})

\* a requirement is probed: met is logged as INFO (when there is something
\* to say), not met as a WARNING; neither changes what the function returns
Requirement(r, id, info, warning, F) ==
    LET probed == Op(r, id, "", Outcome(F, id))
        told == IF info = "" THEN probed ELSE log_message(probed, "INFO", info)
    IN IF Outcome(F, id) # "ok" THEN log_message(probed, "WARNING", warning) ELSE told

\* popen("uname -m"): the architecture is logged, one that is neither
\* aarch64 nor x86_64 is warned about as well
Architecture(r, F) ==
    LET probed == log_message(Op(r, "uname -m", "", Outcome(F, "uname -m")), "INFO",
                              "Detected architecture")
    IN IF Outcome(F, "uname -m") # "ok"
       THEN log_message(probed, "WARNING", "Untested architecture detected")
       ELSE probed

check_system_requirements(F) ==
    LET r0 == log_message(Begin("check_system_requirements"), "INFO",
                          "Checking system requirements...")
        r1 == Architecture(r0, F)
        r2 == Requirement(r1, "stat /etc/os-release", "Linux system detected",
                          "Operating system may not be fully supported", F)
        r3 == Requirement(r2, "df /tmp", "", "Warning: Only less MB available", F)
    IN Return(log_message(r3, "SUCCESS", "System requirements check completed"), 0)

check_system_requirements_steps == Plain({"uname -m", "stat /etc/os-release", "df /tmp"})

\* the first package manager that `which` finds, "" when there is none
Detected(files) ==
    LET found == {k \in 1..Len(PackageManagers) : Which(PackageManagers[k]) \in files}
    IN IF found = {} THEN ""
       ELSE PackageManagers[CHOOSE k \in found : \A m \in found : k <= m]

RECURSIVE Search(_, _)
Search(r, k) ==
    IF k > Len(PackageManagers)
    THEN Return(log_message(r, "ERROR", "No supported package manager found"), -1)
    ELSE LET pm == PackageManagers[k]
             hit == Which(pm) \in r.fs
             r1 == Op(r, "which " \o pm, "", IF hit THEN "ok" ELSE "fail")
         IN IF hit THEN Return(r1, 0) ELSE Search(r1, k + 1)

detect_package_manager == Search(Begin("detect_package_manager"), 1)

install_build_dependencies(pm, F) ==
    LET r0 == log_message(Begin("install_build_dependencies"), "INFO",
                          "Installing build dependencies...")
        r1 == IF pm = "apt"
              THEN WarnIfFailed(installer_execute_command(r0, "apt update", "", TRUE, F),
                                "Failed to update package lists")
              ELSE r0
    IN IF pm \notin {PackageManagers[k] : k \in 1..Len(PackageManagers)}
       THEN Return(log_message(r0, "ERROR", "Unsupported package manager"), -1)
       ELSE LET r2 == installer_execute_command(r1, "install packages", pm, TRUE, F) IN
       IF r2.rc # 0
       THEN Return(log_message(r2, "ERROR", "Failed to install build dependencies"), -1)
       ELSE Return(log_message(r2, "SUCCESS",
                       "Build dependencies installed successfully"), 0)

install_build_dependencies_steps == Plain({"apt update", "install packages"})

compile_kernel_builder(cfg, F) ==
    LET r0 == log_message(Begin("compile_kernel_builder"), "INFO",
                          "Compiling Orange Pi Kernel Builder...")
        source_file == cfg.source_dir \o "/builder.c"
        binary_file == cfg.source_dir \o "/" \o KERNEL_BUILDER_NAME
    IN IF source_file \notin r0.fs
       THEN Return(log_message(r0, "ERROR", "Source file not found"), -1)
       ELSE LET r1 == installer_execute_command(r0, "gcc", binary_file, cfg.verbose, F) IN
       IF r1.rc # 0 THEN Return(log_message(r1, "ERROR", "Compilation failed"), -1)
       ELSE IF binary_file \notin r1.fs
       THEN Return(log_message(r1, "ERROR", "Compiled binary not found"), -1)
       ELSE Return(log_message(r1, "SUCCESS", "Compilation completed successfully"), 0)

compile_kernel_builder_steps == Plain({"gcc"})

install_kernel_builder(cfg, F) ==
    LET r0 == log_message(Begin("install_kernel_builder"), "INFO",
                          "Installing Orange Pi Kernel Builder...")
        r1 == installer_create_directory(r0, cfg.install_dir, F)
        source_path == cfg.source_dir \o "/" \o KERNEL_BUILDER_NAME
        dest_path == cfg.install_dir \o "/" \o KERNEL_BUILDER_NAME
    IN IF r1.rc # 0 THEN Return(r1, -1)
       ELSE LET r2 == copy_file(r1, source_path, dest_path, F) IN
       IF r2.rc # 0 THEN Return(r2, -1)
       ELSE IF dest_path \notin r2.fs
       THEN Return(log_message(r2, "ERROR", "Installation verification failed"), -1)
       ELSE Return(log_message(r2, "SUCCESS",
                       "Orange Pi Kernel Builder installed successfully"), 0)

install_kernel_builder_steps ==
    Plain({"mkdir " \o INSTALL_DIR, "mkdir " \o OTHER_DIR, "fopen destination",
           "fwrite destination"})

\* create_completion_file(): the completion script under /etc/bash_completion.d
create_completion_file(r, F) ==
    LET r0 == log_message(r, "INFO", "Creating bash completion...")
        r1 == Op(r0, "write completion", "", Outcome(F, "write completion"))
    IN IF Outcome(F, "write completion") # "ok"
       THEN Return(log_message(r1, "WARNING", "Failed to create bash completion"), 0)
       ELSE Return(log_message(r1, "SUCCESS", "Bash completion installed"), 0)

\* the stage without the scan of the rc file: aliases_exist stays 0
setup_shell_integration_unchecked(cfg, F) ==
    LET r0 == Begin("setup_shell_integration") IN
    IF cfg.skip_shell
    THEN Return(r0, 0)
    ELSE LET r1 == create_completion_file(
                       log_message(r0, "INFO", "Setting up shell integration..."), F)
             r2 == Op(r1, "getenv HOME", "", Outcome(F, "getenv HOME"))
         IN IF Outcome(F, "getenv HOME") # "ok"
            THEN Return(log_message(r2, "WARNING",
                            "Cannot determine home directory for shell integration"), 0)
            ELSE IF FALSE
            THEN Return(log_message(r2, "INFO", "Shell aliases already exist"), 0)
            ELSE LET r3 == Op(r2, "fopen rc file", "", Outcome(F, "fopen rc file")) IN
            IF Outcome(F, "fopen rc file") # "ok"
            THEN Return(log_message(r3, "WARNING", "Failed to add shell aliases"), 0)
            ELSE Return(log_message([r3 EXCEPT !.fs = AppendAliases(@)], "SUCCESS",
                            "Shell aliases added"), 0)

setup_shell_integration(cfg, F) ==
    LET r0 == Begin("setup_shell_integration") IN
    IF cfg.skip_shell
    THEN Return(r0, 0)
    ELSE LET r1 == create_completion_file(
                       log_message(r0, "INFO", "Setting up shell integration..."), F)
             r2 == Op(r1, "getenv HOME", "", Outcome(F, "getenv HOME"))
         IN IF Outcome(F, "getenv HOME") # "ok"
            THEN Return(log_message(r2, "WARNING",
                            "Cannot determine home directory for shell integration"), 0)
            ELSE IF aliases_exist(r2.fs)
            THEN Return(log_message(r2, "INFO", "Shell aliases already exist"), 0)
            ELSE LET r3 == Op(r2, "fopen rc file", "", Outcome(F, "fopen rc file")) IN
            IF Outcome(F, "fopen rc file") # "ok"
            THEN Return(log_message(r3, "WARNING", "Failed to add shell aliases"), 0)
            ELSE Return(log_message([r3 EXCEPT !.fs = AppendAliases(@)], "SUCCESS",
                            "Shell aliases added"), 0)

setup_shell_integration_steps ==
    Plain({"write completion", "getenv HOME", "fopen rc file"})

DESKTOP_DIR == "~/.local/share/applications"

create_desktop_entry(cfg, F) ==
    LET r0 == Begin("create_desktop_entry") IN
    IF cfg.skip_desktop
    THEN Return(r0, 0)
    ELSE LET r1 == Op(log_message(r0, "INFO", "Creating desktop entry..."),
                      "getenv HOME", "", Outcome(F, "getenv HOME"))
         IN IF Outcome(F, "getenv HOME") # "ok"
            THEN Return(log_message(r1, "WARNING",
                            "Cannot determine home directory, skipping desktop entry"), 0)
            ELSE LET r2 == installer_create_directory(r1, DESKTOP_DIR, F) IN
            IF r2.rc # 0
            THEN Return(log_message(r2, "WARNING", "Cannot create desktop directory"), 0)
            ELSE LET r3 == Op(r2, "write desktop file", "",
                              Outcome(F, "write desktop file")) IN
            IF Outcome(F, "write desktop file") # "ok"
            THEN Return(log_message(r3, "WARNING", "Failed to create desktop entry"), 0)
            ELSE Return(log_message(r3, "SUCCESS", "Desktop entry created"), 0)

create_desktop_entry_steps ==
    Plain({"getenv HOME", "mkdir " \o DESKTOP_DIR, "write desktop file"})

verify_installation(cfg, F) ==
    LET r0 == log_message(Begin("verify_installation"), "INFO",
                          "Verifying installation...")
        binary_path == cfg.install_dir \o "/" \o KERNEL_BUILDER_NAME
    IN IF binary_path \notin r0.fs
       THEN Return(log_message(r0, "ERROR",
                       "Binary not found in installation directory"), -1)
       ELSE LET r1 == [r0 EXCEPT !.ev = Append(@, <<"cmd", "builder --help", binary_path,
                                                  Outcome(F, "builder --help"), "quiet">>)]
       IN IF Outcome(F, "builder --help") # "ok"
          THEN Return(log_message(r1, "ERROR", "Binary does not execute properly"), -1)
          ELSE Return(log_message(r1, "SUCCESS",
                          "Installation verification completed"), 0)

verify_installation_steps == Plain({"builder --help"})

(***************************************************************************)
(* main() of installer.c.                                                  *)
(***************************************************************************)
InstallerParseArg ==
    /\ pc = "parse"
    /\ i <= Len(argv)
    /\ argv[i] \in InstallerValueFlags \cup InstallerToggleFlags
    /\ config' = InstallerApplyToken(config, i)
    /\ i' = InstallerAdvance(i)
    /\ UNCHANGED <<argv, no_install, cleanup, verify_gpu, nproc, pc, fs, cwd,
                   log_fp, trace, faults_left, exit_status, package_manager, fs0>>

\* -h, --help: print_usage(argv[0]); return 0;
InstallerParseHelp ==
    /\ pc = "parse"
    /\ i <= Len(argv)
    /\ argv[i] \in HelpFlags
    /\ trace' = Append(trace, Event("print", "usage"))
    /\ pc' = "exit"
    /\ exit_status' = 0
    /\ UNCHANGED <<argv, i, config, no_install, cleanup, verify_gpu, nproc, fs,
                   cwd, log_fp, faults_left, package_manager, fs0>>

\* else: printf("Unknown option: %s\n", argv[i]); return 1;
InstallerUnknownOptionIgnored ==
    /\ pc = "parse"
    /\ i <= Len(argv)
    /\ argv[i] \notin InstallerKnownFlags
    /\ trace' = trace \o <<<<"print", "Unknown option", argv[i], "", "">>>>
    /\ i' = i + 1
    /\ UNCHANGED <<argv, config, no_install, cleanup, verify_gpu, nproc, pc, fs,
                   cwd, log_fp, faults_left, exit_status, package_manager, fs0>>

InstallerUnknownOption ==
    /\ pc = "parse"
    /\ i <= Len(argv)
    /\ argv[i] \notin InstallerKnownFlags
    /\ trace' = trace \o <<<<"print", "Unknown option", argv[i], "", "">>,
                           Event("print", "Use --help for usage information")>>
    /\ pc' = "exit"
    /\ exit_status' = 1
    /\ UNCHANGED <<argv, i, config, no_install, cleanup, verify_gpu, nproc, fs,
                   cwd, log_fp, faults_left, package_manager, fs0>>

\* main() itself, between two stage functions: no stage is entered
InMain == [Begin("main") EXCEPT !.ev = <<>>]

\* the loop ends; log_fp = fopen("/tmp/orangepi-installer.log", "a");
InstallerOpenLog ==
    /\ pc = "parse"
    /\ i > Len(argv)
    /\ \E F \in FaultSets(Plain({"fopen " \o INSTALLER_LOG}), faults_left) :
           LET out == Outcome(F, "fopen " \o INSTALLER_LOG)
               r == [Op(InMain, "fopen " \o INSTALLER_LOG, "", out)
                        EXCEPT !.log_fp = IF out = "ok" THEN "open" ELSE "null"]
           IN Stage(r, F, "check_root_permissions")

InstallerCheckRootPermissions ==
    /\ pc = "check_root_permissions"
    /\ \E F \in FaultSets(installer_check_root_permissions_steps, faults_left) :
           Stage(installer_check_root_permissions(F), F, "check_system_requirements")

\* if (!config.force_install && check_system_requirements() != 0) goto error;
CheckSystemRequirements ==
    /\ pc = "check_system_requirements"
    /\ IF config.force_install
       THEN Stage(InMain, {}, "detect_package_manager")
       ELSE \E F \in FaultSets(check_system_requirements_steps, faults_left) :
                Stage(check_system_requirements(F), F, "detect_package_manager")

\* detect_package_manager(package_manager, ...): without --force a failure
\* is fatal, with it the name becomes "unknown"
DetectPackageManager ==
    LET r == detect_package_manager
        forced == log_message(r, "WARNING",
                              "Package manager detection failed, continuing anyway")
        found == log_message(IF r.rc # 0 THEN forced ELSE r, "INFO",
                             "Using package manager")
        stop == r.rc # 0 /\ ~config.force_install
    IN /\ pc = "detect_package_manager"
       /\ Took(IF stop THEN r ELSE found, {})
       /\ package_manager' = IF r.rc # 0
                             THEN (IF stop THEN "" ELSE "unknown")
                             ELSE Detected(fs)
       /\ pc' = IF stop THEN "error" ELSE "install_build_dependencies"
       /\ UNCHANGED <<argv, i, config, no_install, cleanup, verify_gpu, nproc,
                      exit_status, fs0>>

\* if (strcmp(package_manager, "unknown") != 0) { install; without --force a
\* failure is fatal }
InstallBuildDependencies ==
    /\ pc = "install_build_dependencies"
    /\ IF package_manager = "unknown"
       THEN Stage(InMain, {}, "compile_kernel_builder")
       ELSE \E F \in FaultSets(install_build_dependencies_steps, faults_left) :
                LET r == install_build_dependencies(package_manager, F)
                IN IF r.rc # 0 /\ config.force_install
                   THEN Stage(Return(log_message(r, "WARNING",
                                  "Dependency installation failed, continuing anyway"), 0),
                              F, "compile_kernel_builder")
                   ELSE Stage(r, F, "compile_kernel_builder")

\* if (compile_kernel_builder(&config) != 0) goto error;
CompileKernelBuilderLenient ==
    /\ pc = "compile_kernel_builder"
    /\ \E F \in FaultSets(compile_kernel_builder_steps, faults_left) :
           Stage(Return(compile_kernel_builder(config, F), 0), F,
                 "install_kernel_builder")

CompileKernelBuilder ==
    /\ pc = "compile_kernel_builder"
    /\ \E F \in FaultSets(compile_kernel_builder_steps, faults_left) :
           Stage(compile_kernel_builder(config, F), F, "install_kernel_builder")

InstallKernelBuilder ==
    /\ pc = "install_kernel_builder"
    /\ \E F \in FaultSets(install_kernel_builder_steps, faults_left) :
           Stage(install_kernel_builder(config, F), F, "setup_shell_integration")

\* if (setup_shell_integration(&config) != 0) log WARNING; never fatal
SetupShellIntegration ==
    /\ pc = "setup_shell_integration"
    /\ \E F \in FaultSets(setup_shell_integration_steps, faults_left) :
           Stage(Return(WarnIfFailed(setup_shell_integration(config, F),
                                     "Shell integration setup failed"), 0),
                 F, "create_desktop_entry")

CreateDesktopEntry ==
    /\ pc = "create_desktop_entry"
    /\ \E F \in FaultSets(create_desktop_entry_steps, faults_left) :
           Stage(Return(WarnIfFailed(create_desktop_entry(config, F),
                                     "Desktop entry creation failed"), 0),
                 F, "verify_installation")

VerifyInstallation ==
    /\ pc = "verify_installation"
    /\ \E F \in FaultSets(verify_installation_steps, faults_left) :
           Stage(verify_installation(config, F), F, "success")

InstallerSuccess ==
    /\ pc = "success"
    /\ Leave(CloseLog(
                 [log_message(Begin("main"), "SUCCESS",
                      "Orange Pi Kernel Builder installed successfully!")
                     EXCEPT !.ev = Append(@, Event("print", "Installation Complete!"))]), 0)

InstallerError ==
    /\ pc = "error"
    /\ Leave(CloseLog(
                 [log_message(Begin("main"), "ERROR", "Installation failed!")
                     EXCEPT !.ev = @ \o <<Event("print", "Installation Failed!"),
                                          Event("print", "Troubleshooting")>>]), 1)

InstallerDefaultConfig ==
    [install_dir |-> INSTALL_DIR, source_dir |-> SOURCE_DIR, skip_desktop |-> FALSE,
     skip_shell |-> FALSE, verbose |-> FALSE, force_install |-> FALSE]

\* the installer is started once more on the same machine with the same
\* command line: main() starts from its initial values, the disk is as the
\* run before left it
InstallerRunAgain ==
    /\ pc = "exit"
    /\ i' = 1
    /\ config' = InstallerDefaultConfig
    /\ pc' = "parse"
    /\ cwd' = SOURCE_DIR
    /\ log_fp' = "null"
    /\ trace' = <<Event("print", "header")>>
    /\ exit_status' = -1
    /\ package_manager' = ""
    /\ UNCHANGED <<argv, no_install, cleanup, verify_gpu, nproc, fs, faults_left,
                   fs0>>

NextInstaller ==
    \/ InstallerParseArg
    \/ InstallerParseHelp
    \/ InstallerUnknownOption
    \/ InstallerOpenLog
    \/ InstallerCheckRootPermissions
    \/ CheckSystemRequirements
    \/ DetectPackageManager
    \/ InstallBuildDependencies
    \/ CompileKernelBuilder
    \/ InstallKernelBuilder
    \/ SetupShellIntegration
    \/ CreateDesktopEntry
    \/ VerifyInstallation
    \/ InstallerSuccess
    \/ InstallerError
    \/ InstallerRunAgain

\* what is on disk before the installer runs: a Debian machine, a machine
\* with dnf and zypper where the tool was installed before, a machine without
\* a package manager, one whose source is in another directory, and two
\* whose rc file already names the tool in a line of the user's
InstallerFileSystems ==
    {{Which("apt"), SOURCE_DIR \o "/builder.c"},
     {Which("dnf"), Which("zypper"), SOURCE_DIR \o "/builder.c", INSTALL_DIR, ALIASES},
     {SOURCE_DIR \o "/builder.c", INSTALL_DIR},
     {Which("apt"), OTHER_DIR, OTHER_DIR \o "/builder.c"},
     {Which("apt"), SOURCE_DIR \o "/builder.c", MENTION},
     {Which("apt"), SOURCE_DIR \o "/builder.c", LONG_MENTION}}

\* the command lines under which failing steps are explored
InstallerCommandLines ==
    {<<>>, <<"--force">>, <<"--verbose">>, <<"--skip-shell", "--skip-desktop">>,
     <<"--source-dir", OTHER_DIR>>, <<"--force", "--install-dir", OTHER_DIR>>}

InstallerStart ==
    /\ i = 1
    /\ config = InstallerDefaultConfig
    /\ no_install = FALSE
    /\ cleanup = FALSE
    /\ verify_gpu = FALSE
    /\ nproc = 2
    /\ pc = "parse"
    /\ cwd = SOURCE_DIR
    /\ log_fp = "null"
    /\ trace = <<Event("print", "header")>>
    /\ exit_status = -1
    /\ package_manager = ""

\* SpecInstaller: every command line of up to MaxArgs tokens without a
\* failing step, and the command lines above with up to MaxFaults of them
InitInstaller ==
    /\ \/ argv \in SeqsUpTo(InstallerTokens, MaxArgs) /\ faults_left = 0
       \/ argv \in InstallerCommandLines /\ faults_left = MaxFaults
    /\ fs \in InstallerFileSystems
    /\ fs0 = fs
    /\ InstallerStart

SpecInstaller == InitInstaller /\ [][NextInstaller]_vars

(***************************************************************************)
(* Reading the trace.                                                      *)
(***************************************************************************)
Positions == 1..Len(trace)
IsStep(k) == trace[k][1] \in {"cmd", "op"}
IsStage(k) == trace[k][1] = "stage"
FailedAt(k) == IsStep(k) /\ trace[k][4] # "ok"
Warned(k) == trace[k][1] = "log" /\ trace[k][2] = "WARNING"
Logged(level, message) ==
    \E k \in Positions : trace[k][1] = "log" /\ trace[k][2] = level /\ trace[k][3] = message
Entered(stage) == \E k \in Positions : IsStage(k) /\ trace[k][2] = stage
Ran(id) == \E k \in Positions : IsStep(k) /\ trace[k][2] = id
StepFailed(id) == \E k \in Positions : FailedAt(k) /\ trace[k][2] = id
AllSucceeded == \A k \in Positions : ~FailedAt(k)

\* the ids, in order, of the stage entries among S and of the steps among S
StagesAmong(S) ==
    LET hit(e) == e[1] = "stage" /\ e[2] \in S
        sel == SelectSeq(trace, hit)
    IN [k \in 1..Len(sel) |-> sel[k][2]]

StepsAmong(S) ==
    LET hit(e) == e[1] \in {"cmd", "op"} /\ e[2] \in S
        sel == SelectSeq(trace, hit)
    IN [k \in 1..Len(sel) |-> sel[k][2]]

Range(seq) == {seq[k] : k \in 1..Len(seq)}

GpuStages ==
    {"download_mali_blobs", "install_mali_drivers", "setup_opencl_support",
     "setup_vulkan_support"}
KernelStages ==
    {"download_kernel_source", "configure_kernel", "build_kernel", "install_kernel"}

(***************************************************************************)
(* C1.  A run with no flags in which every command and file operation      *)
(* succeeds runs the stages and their steps in the documented order, each  *)
(* once, and exits with status 0.  (The build directory is made first      *)
(* unless it is there already.)                                            *)
(***************************************************************************)
FullRunStages ==
    <<"setup_build_environment", "install_prerequisites", "download_mali_blobs",
      "install_mali_drivers", "setup_opencl_support", "setup_vulkan_support",
      "download_kernel_source", "configure_kernel", "build_kernel", "install_kernel">>

FullRunSteps ==
    <<"apt update", "apt install",
      "wget mali_csffw.bin", "wget libmali", "git clone libmali-rockchip",
      "cp mali_csffw.bin /lib/firmware/", "cp libmali /usr/lib/",
      "ln -sf libMali.so", "ln -sf libMali.so.1", "ln -sf libmali.so",
      "ln -sf libmali.so.1", "ln -sf libEGL.so.1", "ln -sf libGLESv1_CM.so.1",
      "ln -sf libGLESv2.so.2", "ln -sf libgbm.so.1", "ldconfig",
      "write /etc/OpenCL/vendors/mali.icd", "write /usr/share/vulkan/icd.d/mali.json",
      "git clone linux-rockchip",
      "make board_defconfig", "append .config",
      "make Image", "make dtbs", "make modules",
      "make modules_install", "make dtbs_install",
      "cp Image /boot/vmlinuz", "cp System.map /boot/System.map",
      "cp .config /boot/config",
      "update-initramfs", "u-boot-update">>

MakeBuildDir == "mkdir /tmp/kernel_build"

C1_FullRunOrder ==
    (argv = <<>> /\ pc = "exit" /\ AllSucceeded) =>
        /\ exit_status = 0
        /\ StagesAmong(Range(FullRunStages)) = FullRunStages
        /\ StepsAmong(Range(FullRunSteps)) = FullRunSteps
        /\ BUILD_DIR \in fs
        /\ \A k \in Positions :
               (IsStep(k) /\ trace[k][2] = MakeBuildDir) =>
                   /\ \A m \in 1..(k - 1) : trace[m][2] \notin Range(FullRunSteps)
                   /\ \A m \in Positions : trace[m][2] = MakeBuildDir => m = k

C1_Witness ==
    /\ argv = <<>> /\ pc = "exit" /\ AllSucceeded /\ exit_status = 0
    /\ Ran(MakeBuildDir) /\ Ran("u-boot-update")

(***************************************************************************)
(* C2.  For a run that got past argument parsing, the exit status is 1 if  *)
(* and only if a fatal step failed, and nothing is started after the first *)
(* fatal failure.                                                          *)
(***************************************************************************)
FatalSteps ==
    {"stat /etc/debian_version", "geteuid", "mkdir /tmp/kernel_build", "apt update",
     "apt install", "mkdir /tmp/mali_install", "chdir", "wget mali_csffw.bin",
     "wget libmali", "cp mali_csffw.bin /lib/firmware/", "cp libmali /usr/lib/",
     "mkdir /etc/OpenCL/vendors", "fopen mali.icd", "mkdir /usr/share/vulkan/icd.d",
     "fopen mali.json", "make Image", "make dtbs", "make modules",
     "make modules_install", "cp Image /boot/vmlinuz"}

\* a fatal step failed at k: one of FatalSteps, or the fallback of a pair
FatalAt(k) ==
    /\ FailedAt(k)
    /\ \/ trace[k][2] \in FatalSteps
       \/ trace[k][2] = "git clone linux" /\ StepFailed("git clone linux-rockchip")
       \/ trace[k][2] = "make defconfig" /\ StepFailed("make board_defconfig")

PastParsing == \E k \in Positions : IsStage(k)

C2_ExitStatusIffFatalFailure ==
    PastParsing =>
        /\ pc = "exit" => (exit_status = 1 <=> \E k \in Positions : FatalAt(k))
        /\ \A k \in Positions :
               FatalAt(k) => \A m \in (k + 1)..Len(trace) : ~IsStep(m) /\ ~IsStage(m)

(***************************************************************************)
(* C3.  When the GPU flag is false after parsing, none of the four GPU     *)
(* stages and none of their steps runs, whatever the OpenCL and Vulkan     *)
(* flags are; a run that ends well still fetched, configured, compiled     *)
(* and (unless --no-install) installed the kernel.                         *)
(***************************************************************************)
GpuSteps ==
    {"mkdir /tmp/mali_install", "wget mali_csffw.bin", "wget libmali",
     "wget libmali-vulkan", "git clone libmali-rockchip",
     "cp mali_csffw.bin /lib/firmware/", "cp libmali /usr/lib/",
     "cp libmali-vulkan /usr/lib/", "ln -sf libvulkan_mali.so", "ldconfig",
     "mkdir /etc/OpenCL/vendors", "fopen mali.icd", "chmod 644 mali.icd",
     "write /etc/OpenCL/vendors/mali.icd", "mkdir /usr/share/vulkan/icd.d",
     "fopen mali.json", "chmod 644 mali.json",
     "write /usr/share/vulkan/icd.d/mali.json"}
      \cup {"ln -sf " \o mali_links[k] : k \in 1..Len(mali_links)}

C3_DisableGpuSkipsGpuStages ==
    (pc # "parse" /\ ~config.install_gpu_blobs) =>
        /\ \A k \in Positions :
               /\ IsStage(k) => trace[k][2] \notin GpuStages
               /\ IsStep(k) => trace[k][2] \notin GpuSteps
        /\ (pc = "exit" /\ exit_status = 0) =>
               StagesAmong(KernelStages) =
                   IF no_install
                   THEN <<"download_kernel_source", "configure_kernel", "build_kernel">>
                   ELSE <<"download_kernel_source", "configure_kernel", "build_kernel",
                          "install_kernel">>

C3_Witness ==
    /\ argv = <<"--disable-gpu", "--enable-opencl">>
    /\ ~config.install_gpu_blobs /\ config.enable_opencl
    /\ pc = "exit" /\ exit_status = 0
    /\ Entered("install_kernel") /\ Ran("make Image")

(***************************************************************************)
(* C4.  A failed firmware download or primary driver download aborts the   *)
(* run with exit status 1 before any later stage starts; a failed download *)
(* of the Vulkan variant or a failed clone of the auxiliary repository     *)
(* leaves the blob stage successful.                                       *)
(***************************************************************************)
MandatoryDownloads == {"wget mali_csffw.bin", "wget libmali"}
OptionalDownloads == {"wget libmali-vulkan", "git clone libmali-rockchip"}

C4_MandatoryDownloadFailureAborts ==
    /\ \A k \in Positions :
           (FailedAt(k) /\ trace[k][2] \in MandatoryDownloads) =>
               /\ \A m \in (k + 1)..Len(trace) : ~IsStep(m) /\ ~IsStage(m)
               /\ pc = "exit" => exit_status = 1
    /\ ((\E k \in Positions : FailedAt(k) /\ trace[k][2] \in OptionalDownloads)
          /\ (\A k \in Positions : FailedAt(k) => trace[k][2] \in OptionalDownloads)) =>
           Logged("SUCCESS", "Mali GPU blobs downloaded successfully")

(***************************************************************************)
(* C5.  When one non-fatal step fails and nothing else does, the run still *)
(* ends in the success state with exit status 0 and a WARNING record is    *)
(* logged for the failed step.                                             *)
(***************************************************************************)
NonFatalSteps ==
    {"apt build-dep", "git clone libmali-rockchip", "git clone ubuntu-rockchip",
     "ln -sf libvulkan_mali.so", "ldconfig", "make mrproper", "make olddefconfig",
     "make dtbs_install", "cp System.map /boot/System.map", "cp .config /boot/config",
     "update-initramfs", "u-boot-update"}
      \cup {"ln -sf " \o mali_links[k] : k \in 1..Len(mali_links)}

C5_NonFatalFailureWarns ==
    \A k \in Positions :
        (/\ pc = "exit"
         /\ FailedAt(k) /\ trace[k][2] \in NonFatalSteps
         /\ \A m \in Positions : FailedAt(m) => m = k) =>
            /\ exit_status = 0
            /\ Logged("SUCCESS", "Kernel build process completed successfully!")
            /\ \E m \in (k + 1)..Len(trace) : Warned(m)

(***************************************************************************)
(* Reading the command line: the positions whose token is read as a flag.  *)
(* A token that follows a value flag is that flag's value, and nothing     *)
(* after the first help flag is read at all.                               *)
(***************************************************************************)
RECURSIVE FlagPositionsFrom(_)
FlagPositionsFrom(k) ==
    IF k > Len(argv) THEN {}
    ELSE IF argv[k] \in HelpFlags THEN {k}
    ELSE {k} \cup FlagPositionsFrom(IF argv[k] \in ValueFlags THEN k + 2 ELSE k + 1)

FlagPositions == FlagPositionsFrom(1)
ReachesHelp == \E k \in FlagPositions : argv[k] \in HelpFlags
\* the flag positions the loop has already been through
Processed == {k \in FlagPositions : k < i}

Max(S) == CHOOSE x \in S : \A y \in S : y <= x

(***************************************************************************)
(* C6.  When the parser reaches -h or --help as a flag it prints the usage *)
(* text and the process exits with status 0: no check and no stage runs,   *)
(* nothing is logged and the log file is never opened.                     *)
(***************************************************************************)
C6_HelpExitsAtOnce ==
    ReachesHelp =>
        /\ pc \in {"parse", "exit"}
        /\ log_fp = "null"
        /\ \A k \in Positions : trace[k][1] = "print"
        /\ pc = "exit" =>
               /\ exit_status = 0
               /\ trace = <<Event("print", "header"), Event("print", "usage")>>

C6_Witness ==
    /\ Len(argv) = 2 /\ argv[1] = "--disable-gpu" /\ argv[2] \in HelpFlags
    /\ pc = "exit" /\ exit_status = 0

(***************************************************************************)
(* C7.  A command line with a token that is read as a flag and is not a    *)
(* recognized flag is rejected: no check and no pipeline stage runs.       *)
(***************************************************************************)
HasUnknownFlag == \E k \in FlagPositions : argv[k] \notin KnownFlags

C7_UnknownFlagRejected ==
    HasUnknownFlag =>
        /\ pc \in {"parse", "exit"}
        /\ \A k \in Positions : ~IsStage(k) /\ ~IsStep(k)
        /\ pc = "exit" => exit_status # 0

(***************************************************************************)
(* C8.  Flags are applied in command-line order: each of the GPU, OpenCL   *)
(* and Vulkan flags holds the value written by the last processed token    *)
(* that writes it (its default, true, when there is none), where           *)
(* --disable-gpu writes false to all three and every other toggle writes   *)
(* its own flag only.                                                      *)
(***************************************************************************)
GpuWriters == {"--enable-gpu", "--disable-gpu"}
OpenclWriters == {"--enable-opencl", "--disable-opencl", "--disable-gpu"}
VulkanWriters == {"--enable-vulkan", "--disable-vulkan", "--disable-gpu"}
Enablers == {"--enable-gpu", "--enable-opencl", "--enable-vulkan"}

LastWritten(writers) ==
    LET W == {k \in Processed : argv[k] \in writers}
    IN IF W = {} THEN TRUE ELSE argv[Max(W)] \in Enablers

C8_LastWriterWins ==
    /\ config.install_gpu_blobs = LastWritten(GpuWriters)
    /\ config.enable_opencl = LastWritten(OpenclWriters)
    /\ config.enable_vulkan = LastWritten(VulkanWriters)
    /\ (argv = <<"--disable-gpu", "--enable-opencl">> /\ pc # "parse") =>
           ~config.install_gpu_blobs /\ config.enable_opencl /\ ~config.enable_vulkan
    /\ (argv = <<"--enable-opencl", "--disable-gpu">> /\ pc # "parse") =>
           ~config.install_gpu_blobs /\ ~config.enable_opencl /\ ~config.enable_vulkan

C8_Witness ==
    /\ argv = <<"--disable-gpu", "--enable-opencl">>
    /\ pc = "build_kernel"
    /\ ~config.install_gpu_blobs /\ config.enable_opencl /\ ~config.enable_vulkan

(***************************************************************************)
(* C9.  As claimed: once --disable-gpu has been processed, the OpenCL and  *)
(* Vulkan flags are false after every later token and in the record the    *)
(* stages read.                                                            *)
(***************************************************************************)
DisableGpuProcessed == \E k \in Processed : argv[k] = "--disable-gpu"

C9_DisableGpuIsFinal ==
    DisableGpuProcessed => ~config.enable_opencl /\ ~config.enable_vulkan

(***************************************************************************)
(* C9, amended.  Once --disable-gpu has been processed, the OpenCL flag is *)
(* false until a later --enable-opencl is processed and the Vulkan flag is *)
(* false until a later --enable-vulkan is processed; no other token,       *)
(* --enable-gpu included, makes them true again.                           *)
(***************************************************************************)
ProcessedAfter(k, tok) == \E m \in Processed : m > k /\ argv[m] = tok

C9_DisableGpuHoldsUntilReenabled ==
    \A k \in Processed :
        argv[k] = "--disable-gpu" =>
            /\ ~ProcessedAfter(k, "--enable-opencl") => ~config.enable_opencl
            /\ ~ProcessedAfter(k, "--enable-vulkan") => ~config.enable_vulkan

C9_Witness ==
    /\ argv = <<"--disable-gpu", "--enable-gpu">>
    /\ pc = "download_mali_blobs"
    /\ config.install_gpu_blobs /\ ~config.enable_opencl /\ ~config.enable_vulkan

(***************************************************************************)
(* C10.  Processing --enable-gpu sets the GPU flag and changes nothing     *)
(* else: not the OpenCL or Vulkan flag, no other field of the record, none *)
(* of the three switches of main().  After --disable-gpu --enable-gpu the  *)
(* GPU flag is true and the OpenCL and Vulkan flags are false.             *)
(***************************************************************************)
AtEnableGpu == pc = "parse" /\ i <= Len(argv) /\ argv[i] = "--enable-gpu"

C10_EnableGpuFrame ==
    /\ [][AtEnableGpu =>
            /\ config'.install_gpu_blobs
            /\ \A f \in DOMAIN config \ {"install_gpu_blobs"} : config'[f] = config[f]
            /\ no_install' = no_install
            /\ cleanup' = cleanup
            /\ verify_gpu' = verify_gpu]_vars
    /\ []((argv = <<"--disable-gpu", "--enable-gpu">> /\ pc # "parse") =>
              config.install_gpu_blobs /\ ~config.enable_opencl /\ ~config.enable_vulkan)

C10_Witness ==
    /\ argv = <<"--disable-gpu", "--enable-gpu">>
    /\ i = 3 /\ pc = "parse"
    /\ config.install_gpu_blobs /\ ~config.enable_opencl /\ ~config.enable_vulkan

(***************************************************************************)
(* The job count.  JobsGiven are the processed -j/--jobs flags that had a  *)
(* value; the configuration is constructed once the loop has ended and the *)
(* default job count has been filled in.                                   *)
(***************************************************************************)
JobsGiven == {k \in Processed : argv[k] \in JobsFlags /\ k + 1 <= Len(argv)}
IntegerTokens == {"8", "0", "-5"}
Literal(tok) ==
    CASE tok = "8" -> 8
      [] tok = "0" -> 0
      [] tok = "-5" -> 0 - 5
ConfigConstructed == pc # "parse" /\ ~ReachesHelp

(***************************************************************************)
(* C11.  As claimed: the job count of the constructed configuration is the *)
(* detected processor count when no -j/--jobs value was given and the      *)
(* integer given with the last -j/--jobs otherwise, 0 included.            *)
(***************************************************************************)
C11_JobsLiteralOrDetected ==
    ConfigConstructed =>
        IF JobsGiven = {} THEN config.jobs = nproc
        ELSE LET value == argv[Max(JobsGiven) + 1]
             IN value \in IntegerTokens => config.jobs = Literal(value)

(***************************************************************************)
(* C11, amended.  The job count of the constructed configuration is the    *)
(* detected processor count when no -j/--jobs value was given or the last  *)
(* one given is 0, and the integer given with the last -j/--jobs when that *)
(* integer is not 0.                                                       *)
(***************************************************************************)
C11_JobsNonZeroLiteralOrDetected ==
    ConfigConstructed =>
        IF JobsGiven = {} THEN config.jobs = nproc
        ELSE LET value == argv[Max(JobsGiven) + 1]
             IN value \in IntegerTokens =>
                    config.jobs = IF Literal(value) = 0 THEN nproc ELSE Literal(value)

C11_Witness ==
    /\ argv = <<"-j", "8", "-j", "0">>
    /\ pc = "build_kernel"
    /\ config.jobs = nproc

(***************************************************************************)
(* C12.  The job count the stages read is greater than 0, and it is the    *)
(* count every compile command is given.                                   *)
(***************************************************************************)
CompileSteps == {"make Image", "make dtbs", "make modules"}

C12_JobsPositive ==
    ConfigConstructed =>
        /\ config.jobs > 0
        /\ \A k \in Positions :
               (IsStep(k) /\ trace[k][2] \in CompileSteps) =>
                   trace[k][3] = ToString(config.jobs)

(***************************************************************************)
(* C13.  A value flag takes the next token as its value whatever that      *)
(* token is, so the loop is never at a value's position and the value is   *)
(* not applied as a flag; the iteration changes only the flag's own field. *)
(* A value flag that ends the command line changes nothing, and the run    *)
(* goes on to the checks: there is no exit from parsing except by help.    *)
(* (An index past the end of argv has no value in this model.)             *)
(***************************************************************************)
AtValueFlag == pc = "parse" /\ i <= Len(argv) /\ argv[i] \in ValueFlags

ValueField(tok) ==
    CASE tok \in VersionFlags -> "kernel_version"
      [] tok \in JobsFlags -> "jobs"
      [] tok \in BuildDirFlags -> "build_dir"
      [] tok = "--defconfig" -> "defconfig"
      [] tok = "--cross-compile" -> "cross_compile"

C13_ValueFlagConsumesNext ==
    /\ [][AtValueFlag =>
            /\ i' = i + 2
            /\ pc' = "parse"
            /\ trace' = trace
            /\ no_install' = no_install /\ cleanup' = cleanup /\ verify_gpu' = verify_gpu
            /\ config' = IF i + 1 <= Len(argv)
                         THEN [config EXCEPT ![ValueField(argv[i])] =
                                   IF argv[i] \in JobsFlags THEN atoi(argv[i + 1])
                                   ELSE argv[i + 1]]
                         ELSE config]_vars
    /\ []((pc = "parse" /\ i <= Len(argv)) => i \in FlagPositions)
    /\ [](i <= Len(argv) + 2)
    /\ []((pc = "exit" /\ ~ReachesHelp) => PastParsing)

C13_Witness ==
    /\ argv = <<"-j", "--help", "--cross-compile">>
    /\ pc = "build_kernel"
    /\ config.jobs = nproc
    /\ config.cross_compile = "aarch64-linux-gnu-"

(***************************************************************************)
(* C14.  When the source-fetch stage starts, the configured build          *)
(* directory, which it changes into, exists.                               *)
(***************************************************************************)
C14_BuildDirExistsAtFetch ==
    pc = "download_kernel_source" => config.build_dir \in fs

(***************************************************************************)
(* C15.  The clone commands follow the configured kernel version: the      *)
(* primary clone takes the branch of the default version exactly when the  *)
(* default version is configured, and the fallback clone takes the tag     *)
(* "v" followed by the configured version.                                 *)
(***************************************************************************)
C15_KernelVersionSelectsClone ==
    \A k \in Positions :
        /\ (IsStep(k) /\ trace[k][2] = "git clone linux-rockchip") =>
               (trace[k][3] = "ubuntu-rockchip-6.8-opi5" <=> config.kernel_version = "6.8.0")
        /\ (IsStep(k) /\ trace[k][2] = "git clone linux") =>
               trace[k][3] = "v" \o config.kernel_version

(***************************************************************************)
(* C16.  The output of an external command is echoed to the console (the   *)
(* command is run through tee) exactly when the verbose flag is set.       *)
(***************************************************************************)
C16_VerboseDecidesEcho ==
    \A k \in Positions :
        trace[k][1] = "cmd" => (trace[k][5] = "tee" <=> config.verbose)

(***************************************************************************)
(* C17.  With an empty command line the configuration holds the documented *)
(* defaults, before and after the job count is filled in, and the three    *)
(* switches of main() are off (install enabled, no cleanup, no GPU         *)
(* verification).                                                          *)
(***************************************************************************)
C17_DefaultConfiguration ==
    argv = <<>> =>
        /\ config.kernel_version = "6.8.0"
        /\ config.build_dir = "/tmp/kernel_build"
        /\ config.defconfig = "rockchip_linux_defconfig"
        /\ config.cross_compile = "aarch64-linux-gnu-"
        /\ config.arch = "arm64"
        /\ ~config.clean_build /\ ~config.verbose
        /\ config.install_gpu_blobs /\ config.enable_opencl /\ config.enable_vulkan
        /\ config.jobs = IF pc = "parse" THEN 0 ELSE nproc
        /\ ~no_install /\ ~cleanup /\ ~verify_gpu
        /\ ~Entered("verify_gpu_installation") /\ ~Entered("cleanup_build")
        /\ ~Ran("make mrproper")

C17_Witness ==
    /\ argv = <<>>
    /\ pc = "exit" /\ exit_status = 0
    /\ Entered("install_kernel") /\ Ran("make board_defconfig")

(***************************************************************************)
(* C18.  With --no-install no kernel-install command is issued and neither *)
(* the install stage nor the verifier is entered, --verify-gpu or not; a   *)
(* run that exits with status 0 went through every stage up to compile.    *)
(***************************************************************************)
InstallSteps ==
    {"make modules_install", "make dtbs_install", "cp Image /boot/vmlinuz",
     "cp System.map /boot/System.map", "cp .config /boot/config",
     "update-initramfs", "u-boot-update"}

NoInstallGiven == \E k \in FlagPositions : argv[k] = "--no-install"

C18_NoInstallSkipsKernelInstall ==
    (NoInstallGiven /\ pc # "parse") =>
        /\ \A k \in Positions :
               /\ IsStep(k) => trace[k][2] \notin InstallSteps
               /\ IsStage(k) => trace[k][2] \notin {"install_kernel",
                                                    "verify_gpu_installation"}
        /\ (pc = "exit" /\ exit_status = 0 /\ config.install_gpu_blobs) =>
               StagesAmong(Range(FullRunStages)) = SubSeq(FullRunStages, 1, 9)

C18_Witness ==
    /\ argv = <<"--no-install", "--verify-gpu">>
    /\ pc = "exit" /\ exit_status = 0
    /\ AllSucceeded /\ Ran("make modules")

(***************************************************************************)
(* C19.  With --no-install nothing is installed: no firmware or driver     *)
(* file is copied or linked into the system directories and no OpenCL or   *)
(* Vulkan descriptor is written.                                           *)
(***************************************************************************)
SystemInstallSteps ==
    {"cp mali_csffw.bin /lib/firmware/", "cp libmali /usr/lib/",
     "cp libmali-vulkan /usr/lib/", "ln -sf libvulkan_mali.so",
     "write /etc/OpenCL/vendors/mali.icd", "write /usr/share/vulkan/icd.d/mali.json"}
      \cup {"ln -sf " \o mali_links[k] : k \in 1..Len(mali_links)}

C19_NoInstallInstallsNothing ==
    NoInstallGiven =>
        /\ \A k \in Positions : IsStep(k) => trace[k][2] \notin SystemInstallSteps
        /\ (pc = "exit" /\ exit_status = 0) =>
               {FW_SYS, DRV_SYS, OPENCL_ICD, VULKAN_ICD} \cap fs = {}

(***************************************************************************)
(* C20.  The verifier is entered only when --verify-gpu was given, the GPU *)
(* flag is true and the install stage has returned success.  When the      *)
(* firmware file or the primary driver file is missing it logs an error    *)
(* and main() goes on to cleanup (if asked for) and the success end; such  *)
(* a run exits with status 0.                                              *)
(***************************************************************************)
VerifyGpuGiven == \E k \in FlagPositions : argv[k] = "--verify-gpu"

VerifierErrors == {"Mali firmware not found", "Mali driver library not found"}

VerifierFailed == \E m \in VerifierErrors : Logged("ERROR", m)

C20_VerifierOnRequestAndNonFatal ==
    /\ [](Entered("verify_gpu_installation") =>
              /\ VerifyGpuGiven /\ config.install_gpu_blobs /\ ~NoInstallGiven
              /\ Logged("SUCCESS", "Kernel installed successfully with Mali GPU support"))
    /\ [][(pc = "verify_gpu_installation" /\ {FW_SYS, DRV_SYS} \cap fs # {FW_SYS, DRV_SYS}) =>
              /\ trace'[Len(trace')][1] = "log"
              /\ trace'[Len(trace')][2] = "ERROR"
              /\ trace'[Len(trace')][3] =
                     (IF FW_SYS \notin fs THEN "Mali firmware not found"
                      ELSE "Mali driver library not found")
              /\ pc' = IF cleanup THEN "cleanup_build" ELSE "success"]_vars
    /\ [](VerifierFailed =>
              /\ pc # "error"
              /\ pc = "exit" =>
                     /\ exit_status = 0
                     /\ Logged("SUCCESS", "Kernel build process completed successfully!")
                     /\ cleanup => Entered("cleanup_build"))

C20_Witness ==
    /\ argv = <<"--verify-gpu", "--cleanup">>
    /\ Logged("ERROR", "Mali firmware not found")
    /\ Entered("cleanup_build")
    /\ pc = "exit" /\ exit_status = 0

(***************************************************************************)
(* C21.  The cleanup stage is entered only when --cleanup was given.  It   *)
(* runs both removals, the configured build directory first and the blob   *)
(* scratch directory second, whether or not the first fails; a failed      *)
(* removal is logged as a warning, and a run that reached cleanup exits    *)
(* with status 0.  Read off the trace of the finished run, which keeps     *)
(* every event of the run.                                                 *)
(***************************************************************************)
CleanupGiven == \E k \in FlagPositions : argv[k] = "--cleanup"

C21_CleanupBestEffort ==
    (pc = "exit" /\ Entered("cleanup_build")) =>
        /\ CleanupGiven
        /\ \E a \in Positions :
               /\ trace[a][1] = "cmd" /\ trace[a][2] = "rm -rf build_dir"
               /\ trace[a][3] = config.build_dir
               /\ \E b \in (a + 1)..Len(trace) :
                      trace[b][1] = "cmd" /\ trace[b][2] = "rm -rf /tmp/mali_install"
        /\ StepFailed("rm -rf build_dir") <=>
               Logged("WARNING", "Failed to cleanup build directory")
        /\ StepFailed("rm -rf /tmp/mali_install") <=>
               Logged("WARNING", "Failed to cleanup Mali install directory")
        /\ Logged("SUCCESS", "Cleanup completed")
        /\ exit_status = 0

C21_Witness ==
    /\ argv = <<"--cleanup">>
    /\ StepFailed("rm -rf build_dir") /\ Ran("rm -rf /tmp/mali_install")
    /\ pc = "exit" /\ exit_status = 0

(***************************************************************************)
(* C22.  The log file is opened at most once, in environment preparation   *)
(* after the build directory was made.  When it cannot be opened a warning *)
(* is logged, the stage goes on and every record goes to the console only. *)
(* When it was opened, the run closes it exactly once before it exits, on  *)
(* the success path and on the error path, as the last thing it does, and  *)
(* nothing is logged after the close; records reach the file only between  *)
(* the open and the close.  Until the run exits log_fp is never closed;    *)
(* the rest is read off the trace of the finished run.                     *)
(***************************************************************************)
Opens == {k \in Positions : IsStep(k) /\ trace[k][2] = "fopen log"}
Closes == {k \in Positions : IsStep(k) /\ trace[k][2] = "fclose log"}
LogRecords == {k \in Positions : trace[k][1] = "log"}
\* the stage that position k of the trace belongs to
StageOf(k) == trace[Max({m \in 1..k : IsStage(m)})][2]

FinishedLogSink ==
    LET opens == Opens
        closes == Closes
        records == LogRecords
    IN /\ Cardinality(opens) <= 1
       /\ Cardinality(closes) <= 1
       /\ \A k \in opens :
              /\ StageOf(k) = "setup_build_environment"
              /\ \A m \in Positions :
                     (IsStep(m) /\ trace[m][2] = MakeBuildDir) =>
                         m < k /\ trace[m][4] = "ok"
              /\ \E m \in (k + 1)..Len(trace) : trace[m][2] = "apt update"
              /\ FailedAt(k) =>
                     /\ trace[k + 1] = <<"log", "WARNING", "Could not open log file", "",
                                         "console">>
                     /\ closes = {}
                     /\ log_fp = "null"
                     /\ \A m \in records : trace[m][5] = "console"
              /\ ~FailedAt(k) =>
                     /\ closes = {Len(trace)}
                     /\ log_fp = "closed"
                     /\ \A m \in records : (trace[m][5] = "file") <=> (m > k)
       /\ opens = {} => closes = {} /\ log_fp = "null"

C22_LogSinkLifecycle ==
    /\ pc # "exit" => log_fp \in {"null", "open"}
    /\ pc = "exit" => FinishedLogSink

C22_Witness ==
    /\ \E k \in Opens : ~FailedAt(k)
    /\ Cardinality(Closes) = 1
    /\ pc = "exit" /\ exit_status = 1
    /\ Logged("ERROR", "Kernel build process failed!")

(***************************************************************************)
(* C23.  A run that ends on a fatal condition, the failed system check and *)
(* the missing root privileges included, has logged an ERROR record and    *)
(* printed the troubleshooting hint, and exits non-zero.                   *)
(***************************************************************************)
Printed(what) == \E k \in Positions : trace[k][1] = "print" /\ trace[k][2] = what

ErrorLogged == \E k \in Positions : trace[k][1] = "log" /\ trace[k][2] = "ERROR"

C23_FatalEndsWithErrorAndHint ==
    /\ (pc = "exit" /\ exit_status # 0) =>
           ErrorLogged /\ Printed("Troubleshooting")
    /\ (StepFailed("geteuid") \/ StepFailed("stat /etc/debian_version")) =>
           (pc = "exit" /\ exit_status # 0 /\ ErrorLogged /\ Printed("Troubleshooting"))

(***************************************************************************)
(* What an external command did, read from its event: it exited non-zero,  *)
(* and execute_command() returned -1 (its "Command failed" record follows  *)
(* the command at once).                                                   *)
(***************************************************************************)
ExitedNonZero(k) ==
    trace[k][1] = "cmd" /\ trace[k][4] \in {"fail", "blocked", "bothfail", "partial"}
ReturnedFailure(k) ==
    /\ trace[k][1] = "cmd"
    /\ k < Len(trace)
    /\ trace[k + 1][1] = "log" /\ trace[k + 1][2] = "ERROR"
    /\ trace[k + 1][3] = "Command failed"
CommandFailed(id) == \E k \in Positions : ExitedNonZero(k) /\ trace[k][2] = id
PositionOf(id) == CHOOSE k \in Positions : IsStep(k) /\ trace[k][2] = id

(***************************************************************************)
(* The installer's command line as its loop reads it: position k is read   *)
(* as an option when the loop gets to it, which it does past toggles and   *)
(* past value flags together with the token they take.                     *)
(***************************************************************************)
InstallerOptions == InstallerValueFlags \cup InstallerToggleFlags

RECURSIVE ReadAsOption(_)
ReadAsOption(k) ==
    \/ k = 1
    \/ \E j \in 1..(k - 1) :
           /\ ReadAsOption(j)
           /\ argv[j] \in InstallerOptions
           /\ k = j + (IF argv[j] \in InstallerValueFlags THEN 2 ELSE 1)

\* the position where parsing stops: the first token read as an option that
\* is not one the installer goes on from
Stops == {k \in 1..Len(argv) : ReadAsOption(k) /\ argv[k] \notin InstallerOptions}

(***************************************************************************)
(* C24.  The installer rejects the first unrecognized token of its command *)
(* line: it prints that token as an unknown option and exits with status 1 *)
(* before its log is opened and before any check or stage runs, and no     *)
(* token after it is processed; -h or --help reached before any            *)
(* unrecognized token prints the usage text and exits with status 0 in the *)
(* same way.  A command line without such a token prints neither.          *)
(***************************************************************************)
C24_InstallerRejectsUnknownOption ==
    /\ \A k \in Stops :
           /\ pc \in {"parse", "exit"}
           /\ i <= k
           /\ log_fp = "null"
           /\ package_manager = ""
           /\ \A m \in Positions : trace[m][1] = "print"
           /\ config.force_install =>
                  \E j \in 1..(k - 1) : ReadAsOption(j) /\ argv[j] = "--force"
           /\ pc = "exit" =>
                  IF argv[k] \in HelpFlags
                  THEN /\ exit_status = 0
                       /\ trace = <<Event("print", "header"), Event("print", "usage")>>
                  ELSE /\ exit_status = 1
                       /\ trace = <<Event("print", "header"),
                                    <<"print", "Unknown option", argv[k], "", "">>,
                                    Event("print", "Use --help for usage information")>>
    /\ Stops = {} => ~Printed("usage") /\ ~Printed("Unknown option")

\* an unknown option followed by --help: rejected, exit status 1, no usage text
C24_Witness ==
    /\ pc = "exit"
    /\ exit_status = 1
    /\ Len(argv) = 2
    /\ argv[1] \notin InstallerKnownFlags
    /\ argv[2] \in HelpFlags
    /\ Printed("Unknown option")

\* a system requirement that was probed and found not met
RequirementNotMet ==
    StepFailed("uname -m") \/ StepFailed("stat /etc/os-release") \/ StepFailed("df /tmp")
DetectionFailed == Logged("ERROR", "No supported package manager found")
DependenciesFailed == Logged("ERROR", "Failed to install build dependencies")
\* the run has ended with exit status 1 or is on its way there
Ending == pc \in {"error", "exit"} /\ (pc = "exit" => exit_status = 1)

\* without --force each of the three failures ends the run
FatalWithoutForce ==
    ~config.force_install =>
        /\ RequirementNotMet => Ending
        /\ DetectionFailed => Ending
        /\ DependenciesFailed => Ending

\* with --force the run goes on to compilation, with a warning
ContinuesWithForce ==
    config.force_install =>
        /\ DetectionFailed =>
               /\ Logged("WARNING", "Package manager detection failed, continuing anyway")
               /\ package_manager = "unknown"
               /\ ~Entered("install_build_dependencies")
               /\ \/ pc \in {"install_build_dependencies", "compile_kernel_builder"}
                  \/ Entered("compile_kernel_builder")
        /\ DependenciesFailed =>
               /\ Logged("WARNING", "Dependency installation failed, continuing anyway")
               /\ Entered("compile_kernel_builder") \/ pc = "compile_kernel_builder"

\* the failures --force does not cover
FatalDespiteForce ==
    (\/ StepFailed("geteuid")
     \/ Logged("ERROR", "Source file not found")
     \/ Logged("ERROR", "Compilation failed")
     \/ StepFailed("mkdir " \o config.install_dir)
     \/ StepFailed("fopen destination")
     \/ StepFailed("fwrite destination")
     \/ StepFailed("builder --help")) => Ending

(***************************************************************************)
(* C25.  With --force the installer continues past a failed system         *)
(* requirements check, past a failed package manager detection (dependency *)
(* installation is then skipped) and past a failed dependency              *)
(* installation, logging a warning; without --force each of these failures *)
(* ends the run with exit status 1.  A failed root check, compilation,     *)
(* binary installation or final verification ends the run with exit status *)
(* 1 with and without --force.                                             *)
(***************************************************************************)
C25_ForceCoversTheThreeChecks ==
    /\ FatalWithoutForce
    /\ ContinuesWithForce
    /\ FatalDespiteForce

\* the stage functions of the installer in the order main() calls them
InstallerStages ==
    <<"check_root_permissions", "check_system_requirements", "detect_package_manager",
      "install_build_dependencies", "compile_kernel_builder", "install_kernel_builder",
      "setup_shell_integration", "create_desktop_entry", "verify_installation">>
InstallerStagesRun == StagesAmong(Range(InstallerStages))
Place(stage) == CHOOSE k \in 1..Len(InstallerStages) : InstallerStages[k] = stage
\* the stages main() leaves out: the requirements check under --force, the
\* dependency installation when no package manager was found
LeftOut(stage) ==
    \/ stage = "check_system_requirements" /\ config.force_install
    \/ stage = "install_build_dependencies" /\ package_manager = "unknown"

(***************************************************************************)
(* C26.  The installer runs its stages in the order root check, system     *)
(* requirements check, package manager detection, dependency installation, *)
(* compilation, binary installation, shell integration, desktop entry,     *)
(* verification, each at most once and none before the ones ahead of it    *)
(* (other than those main leaves out); the binary is installed only after  *)
(* the compilation succeeded; whatever fails in shell integration or in    *)
(* the desktop entry, the next stage follows and the verification alone    *)
(* decides the exit status; a run past the command line exits with status  *)
(* 0 only if compilation, installation and verification all succeeded.     *)
(***************************************************************************)
C26_InstallerStageOrder ==
    /\ \A a, b \in 1..Len(InstallerStagesRun) :
           a < b => Place(InstallerStagesRun[a]) < Place(InstallerStagesRun[b])
    /\ \A k \in 1..Len(InstallerStages) :
           Entered(InstallerStages[k]) =>
               \A j \in 1..(k - 1) :
                   Entered(InstallerStages[j]) \/ LeftOut(InstallerStages[j])
    /\ Entered("install_kernel_builder") =>
           /\ Logged("SUCCESS", "Compilation completed successfully")
           /\ ~Logged("ERROR", "Compilation failed")
    /\ Entered("setup_shell_integration") =>
           pc = "create_desktop_entry" \/ Entered("create_desktop_entry")
    /\ Entered("create_desktop_entry") =>
           pc = "verify_installation" \/ Entered("verify_installation")
    /\ (Entered("verify_installation") /\ pc = "exit") =>
           (exit_status = 0 <=> Logged("SUCCESS", "Installation verification completed"))
    /\ (pc = "exit" /\ exit_status = 0 /\ ~Printed("usage")) =>
           /\ Logged("SUCCESS", "Compilation completed successfully")
           /\ Logged("SUCCESS", "Orange Pi Kernel Builder installed successfully")
           /\ Logged("SUCCESS", "Installation verification completed")
           /\ InstallerStagesRun[Len(InstallerStagesRun)] = "verify_installation"

\* a run whose shell integration or desktop entry failed and that exits 0
C26_Witness ==
    /\ pc = "exit"
    /\ exit_status = 0
    /\ \/ StepFailed("fopen rc file")
       \/ StepFailed("write completion")
       \/ StepFailed("write desktop file")
       \/ StepFailed("mkdir " \o DESKTOP_DIR)
    /\ Len(InstallerStagesRun) = Len(InstallerStages)

(***************************************************************************)
(* C27.  execute_command() returns -1 exactly when the command it was      *)
(* given exits non-zero, with and without show_output.                     *)
(***************************************************************************)
C27_ExecuteCommandReportsExitStatus ==
    \A k \in Positions : trace[k][1] = "cmd" => (ReturnedFailure(k) <=> ExitedNonZero(k))

(***************************************************************************)
(* C28.  The source-fetch stage runs the vendor-fork clone first and the   *)
(* mainline clone only after it, when the vendor-fork clone failed (and    *)
(* then always); it logs its fatal error only when both clones failed and  *)
(* reports success in every other case.                                    *)
(***************************************************************************)
C28_FallbackCloneOnlyAfterFailure ==
    Ran("git clone linux-rockchip") =>
        /\ Ran("git clone linux") <=> CommandFailed("git clone linux-rockchip")
        /\ Ran("git clone linux") =>
               PositionOf("git clone linux-rockchip") < PositionOf("git clone linux")
        /\ Logged("ERROR", "Failed to download kernel source") <=>
               (CommandFailed("git clone linux-rockchip") /\ CommandFailed("git clone linux"))
        /\ Logged("SUCCESS", "Kernel source downloaded successfully") <=>
               ~Logged("ERROR", "Failed to download kernel source")

(***************************************************************************)
(* C29.  The configure stage runs the purge only when the clean flag is    *)
(* set, and then before any configuration target; it runs the generic      *)
(* target only after the board-specific one, when that one failed (and     *)
(* then always); it logs its fatal error only when both targets failed; a  *)
(* failing purge or dependency resolution leaves the stage successful.     *)
(***************************************************************************)
C29_ConfigureFallbackAndPurge ==
    Ran("make board_defconfig") =>
        /\ Ran("make mrproper") <=> config.clean_build
        /\ Ran("make mrproper") =>
               PositionOf("make mrproper") < PositionOf("make board_defconfig")
        /\ Ran("make defconfig") <=> CommandFailed("make board_defconfig")
        /\ Ran("make defconfig") =>
               PositionOf("make board_defconfig") < PositionOf("make defconfig")
        /\ Logged("ERROR", "Failed to configure kernel") <=>
               (CommandFailed("make board_defconfig") /\ CommandFailed("make defconfig"))
        /\ Logged("SUCCESS", "Kernel configured successfully with Mali GPU support") <=>
               ~Logged("ERROR", "Failed to configure kernel")

(***************************************************************************)
(* C30.  When the configure stage reports success, the directive block was *)
(* appended to .config exactly once, after a configuration target that     *)
(* succeeded and before dependency resolution.                             *)
(***************************************************************************)
ConfigTargets == {"make board_defconfig", "make defconfig"}

Appends == {k \in Positions : IsStep(k) /\ trace[k][2] = "append .config"}

C30_DirectiveBlockAppendedOnce ==
    Logged("SUCCESS", "Kernel configured successfully with Mali GPU support") =>
        /\ Cardinality(Appends) = 1
        /\ \A a \in Appends :
               /\ trace[a][3] = "config_options"
               /\ \E t \in 1..(a - 1) :
                      trace[t][1] = "cmd" /\ trace[t][2] \in ConfigTargets
                        /\ ~ExitedNonZero(t)
               /\ \E d \in (a + 1)..Len(trace) :
                      trace[d][1] = "cmd" /\ trace[d][2] = "make olddefconfig"
               /\ \A d \in 1..a : trace[d][2] # "make olddefconfig"

(***************************************************************************)
(* The commands of a stage as the finished run shows them: which ran, in   *)
(* which order, and what followed a command that exited non-zero.          *)
(***************************************************************************)
BuildSteps == <<"make Image", "make dtbs", "make modules">>
IsPrefix(a, b) == Len(a) <= Len(b) /\ \A k \in 1..Len(a) : a[k] = b[k]
\* the commands among S that ran after position k
LaterAmong(k, S) ==
    {m \in (k + 1)..Len(trace) : trace[m][1] = "cmd" /\ trace[m][2] \in S}

(***************************************************************************)
(* C31.  The build stage runs the image, device-tree and module builds in  *)
(* that order, each with the configured job count; a build that exits      *)
(* non-zero is the last one that runs, the install stage is not entered    *)
(* after it and the run exits with status 1.                               *)
(***************************************************************************)
C31_BuildsInOrderAndFatal ==
    pc = "exit" =>
        /\ IsPrefix(StepsAmong(Range(BuildSteps)), BuildSteps)
        /\ \A k \in Positions :
               (trace[k][1] = "cmd" /\ trace[k][2] \in Range(BuildSteps)) =>
                   /\ trace[k][3] = ToString(config.jobs)
                   /\ ExitedNonZero(k) =>
                          /\ LaterAmong(k, Range(BuildSteps)) = {}
                          /\ ~Entered("install_kernel")
                          /\ exit_status = 1

(***************************************************************************)
(* C32.  In the install stage a failed module installation or kernel image *)
(* copy is fatal: no later step of the stage runs and the stage logs its   *)
(* error.  A failed device-tree installation, System.map copy, config      *)
(* copy, init-ramfs regeneration or bootloader update logs its warning,    *)
(* the steps after it still run and the stage reports success.             *)
(***************************************************************************)
InstallFatal ==
    [k \in {"make modules_install", "cp Image /boot/vmlinuz"} |->
        IF k = "make modules_install" THEN "Failed to install kernel modules"
        ELSE "Failed to copy kernel image"]
InstallWarned ==
    [k \in {"make dtbs_install", "cp System.map /boot/System.map",
            "cp .config /boot/config", "update-initramfs", "u-boot-update"} |->
        CASE k = "make dtbs_install" -> "Failed to install device tree blobs"
          [] k = "cp System.map /boot/System.map" -> "Failed to copy System.map"
          [] k = "cp .config /boot/config" -> "Failed to copy kernel config"
          [] k = "update-initramfs" -> "Failed to update initramfs"
          [] OTHER -> "Failed to update u-boot configuration"]
InstallOrder ==
    <<"make modules_install", "make dtbs_install", "cp Image /boot/vmlinuz",
      "cp System.map /boot/System.map", "cp .config /boot/config", "update-initramfs",
      "u-boot-update">>

C32_InstallKernelFatalAndNonFatal ==
    (pc = "exit" /\ Entered("install_kernel")) =>
        /\ IsPrefix(StepsAmong(Range(InstallOrder)), InstallOrder)
        /\ \A id \in DOMAIN InstallFatal :
               CommandFailed(id) =>
                   /\ LaterAmong(PositionOf(id), Range(InstallOrder)) = {}
                   /\ Logged("ERROR", InstallFatal[id])
                   /\ exit_status = 1
        /\ \A id \in DOMAIN InstallWarned :
               /\ CommandFailed(id) <=> Logged("WARNING", InstallWarned[id])
        /\ (\A id \in DOMAIN InstallFatal : ~CommandFailed(id)) =>
               /\ StepsAmong(Range(InstallOrder)) = InstallOrder
               /\ Logged("SUCCESS", "Kernel installed successfully with Mali GPU support")

(***************************************************************************)
(* C33.  In the driver-install stage a failed firmware copy or primary     *)
(* driver copy is fatal.  Every entry of the link table is attempted,      *)
(* whatever happened to the earlier ones, with one warning per failed      *)
(* link; failed links, a failed Vulkan-variant copy and a failed linker    *)
(* cache refresh leave the stage successful.                               *)
(***************************************************************************)
LinkSteps == {"ln -sf " \o mali_links[k] : k \in 1..Len(mali_links)}
DriverCopies == {"cp mali_csffw.bin /lib/firmware/", "cp libmali /usr/lib/"}
LinkWarnings ==
    {k \in Positions : trace[k] = <<"log", "WARNING",
                                    "Failed to create some Mali symbolic links", "",
                                    trace[k][5]>>}

C33_MaliDriversFatalAndNonFatal ==
    (pc = "exit" /\ Entered("install_mali_drivers")) =>
        /\ \A id \in DriverCopies :
               CommandFailed(id) =>
                   /\ ~Logged("SUCCESS", "Mali drivers installed successfully")
                   /\ LaterAmong(PositionOf(id), LinkSteps \cup DriverCopies) = {}
                   /\ exit_status = 1
        /\ (\A id \in DriverCopies : ~CommandFailed(id)) =>
               /\ \A id \in LinkSteps : Ran(id)
               /\ Cardinality(LinkWarnings) =
                      Cardinality({id \in LinkSteps : CommandFailed(id)})
               /\ Logged("SUCCESS", "Mali drivers installed successfully")

(***************************************************************************)
(* C34.  The OpenCL and the Vulkan registration stage each create no       *)
(* directory and no file, and run no command, when their own feature flag  *)
(* is off.  When the flag is on, a registration directory that cannot be   *)
(* made and a descriptor file that cannot be opened are fatal: no          *)
(* descriptor is written, the kernel source is never fetched and the run   *)
(* exits with status 1.                                                    *)
(***************************************************************************)
OpenclSteps ==
    {"mkdir " \o OPENCL_DIR, "fopen mali.icd", "write " \o OPENCL_ICD, "chmod 644 mali.icd"}
VulkanSteps ==
    {"mkdir " \o VULKAN_DIR, "fopen mali.json", "write " \o VULKAN_ICD,
     "chmod 644 mali.json"}
RegistrationFailed(dir, open) == StepFailed("mkdir " \o dir) \/ StepFailed(open)

C34_RegistrationSkippedOrFatal ==
    pc = "exit" =>
        /\ ~config.enable_opencl =>
               /\ StepsAmong(OpenclSteps) = <<>>
               /\ OPENCL_DIR \notin fs /\ OPENCL_ICD \notin fs
        /\ ~config.enable_vulkan =>
               /\ StepsAmong(VulkanSteps) = <<>>
               /\ VULKAN_DIR \notin fs /\ VULKAN_ICD \notin fs
        /\ RegistrationFailed(OPENCL_DIR, "fopen mali.icd") =>
               /\ config.enable_opencl
               /\ OPENCL_ICD \notin fs
               /\ ~Entered("setup_vulkan_support")
               /\ ~Entered("download_kernel_source")
               /\ exit_status = 1
        /\ RegistrationFailed(VULKAN_DIR, "fopen mali.json") =>
               /\ config.enable_vulkan
               /\ VULKAN_ICD \notin fs
               /\ ~Entered("download_kernel_source")
               /\ exit_status = 1

\* OpenCL switched off and skipped, then the Vulkan descriptor cannot be opened
C34_Witness ==
    /\ pc = "exit" /\ exit_status = 1
    /\ ~config.enable_opencl
    /\ Entered("setup_opencl_support")
    /\ StepFailed("fopen mali.json")

(***************************************************************************)
(* C35.  The Vulkan descriptor names the Vulkan variant of the driver      *)
(* exactly when that variant is in the system library directory when the   *)
(* descriptor is written (nothing removes it afterwards), and the standard *)
(* driver otherwise.  In a run on a machine without the variant, whose     *)
(* download or copy of the variant failed, the descriptor names the        *)
(* standard driver and the run goes on to fetch the kernel source.         *)
(***************************************************************************)
VulkanDescriptors ==
    {k \in Positions : IsStep(k) /\ trace[k][2] = "write " \o VULKAN_ICD}
VariantFailed ==
    CommandFailed("wget libmali-vulkan") \/ CommandFailed("cp libmali-vulkan /usr/lib/")

\* the descriptor follows what is installed
DescriptorNamesWhatIsInstalled ==
    pc = "exit" =>
        \A k \in VulkanDescriptors :
            trace[k][3] = IF VK_SYS \in fs THEN VK_SYS ELSE DRV_SYS

C35_VulkanDescriptorNamesVariantIfPresent ==
    pc = "exit" =>
        \A k \in VulkanDescriptors :
            /\ trace[k][3] = IF VK_SYS \in fs THEN VK_SYS ELSE DRV_SYS
            /\ (VK_SYS \notin fs0 /\ VariantFailed) =>
                   /\ trace[k][3] = DRV_SYS
                   /\ Entered("download_kernel_source")

(***************************************************************************)
(* C36.  No external command is issued twice in a run and no stage is      *)
(* entered twice; the mainline clone runs only after a vendor clone that   *)
(* failed and the generic configuration target only after a board-specific *)
(* one that failed.                                                        *)
(***************************************************************************)
Commands == {k \in Positions : trace[k][1] = "cmd"}
StageEntries == {k \in Positions : IsStage(k)}

\* no command and no stage twice
NothingTwice ==
    pc = "exit" =>
        /\ \A a, b \in Commands : a # b => trace[a][2] # trace[b][2]
        /\ \A a, b \in StageEntries : a # b => trace[a][2] # trace[b][2]

\* command id runs only after command primary, which exited non-zero
FallbackOf(id, primary) ==
    Ran(id) =>
        /\ Ran(primary)
        /\ PositionOf(primary) < PositionOf(id)
        /\ ExitedNonZero(PositionOf(primary))

C36_NoRetryOnlyFallbacks ==
    pc = "exit" =>
        /\ \A a, b \in Commands : a # b => trace[a][2] # trace[b][2]
        /\ \A a, b \in StageEntries : a # b => trace[a][2] # trace[b][2]
        /\ FallbackOf("git clone linux", "git clone linux-rockchip")
        /\ FallbackOf("make defconfig", "make board_defconfig")

(***************************************************************************)
(* C37.  Once the argument loop has ended and the job-count default has    *)
(* been applied, no step of the run changes any field of the configuration *)
(* record, whether the step's stage succeeds or fails.                     *)
(***************************************************************************)
C37_ConfigReadOnlyAfterConstruction ==
    [][pc # "parse" => config' = config]_vars

\* a run given --clean that failed in a stage after several ran
C37_Witness ==
    /\ pc = "exit"
    /\ exit_status = 1
    /\ Entered("setup_build_environment")
    /\ Entered("download_kernel_source")
    /\ config.clean_build
    /\ config = [DefaultConfig EXCEPT !.jobs = nproc, !.clean_build = TRUE]

(***************************************************************************)
(* C38.  cleanup_build runs only on the success path: a run that ends in   *)
(* the error state never entered cleanup_build, also when --cleanup was    *)
(* given, and no step outside cleanup_build removes a path from the file   *)
(* system, so what the stages of an aborted run wrote stays.               *)
(***************************************************************************)
Aborted == pc = "error" \/ (pc = "exit" /\ exit_status = 1)

C38_CleanupOnlyOnSuccessPath ==
    /\ [](Aborted => (~Entered("cleanup_build") /\ fs0 \subseteq fs))
    /\ [][pc # "cleanup_build" => fs \subseteq fs']_vars

\* --cleanup was given, firmware and kernel tree were written, the run failed
C38_Witness ==
    /\ pc = "exit"
    /\ exit_status = 1
    /\ cleanup
    /\ FW_SYS \in fs
    /\ (config.build_dir \o "/linux") \in fs
    /\ Entered("build_kernel")

(***************************************************************************)
(* C39.  The installer appends the alias block to the rc file only if no   *)
(* line of the file names the tool, so after any number of runs the file   *)
(* holds exactly one alias block; with --skip-shell it writes neither the  *)
(* rc file nor the bash-completion file.                                   *)
(***************************************************************************)
Appended == AliasBlocks(fs') > AliasBlocks(fs)

\* --skip-shell: no alias block is written, and a finished run has neither
\* written the completion file nor opened the rc file
SkipShellWritesNothing ==
    /\ [](pc = "exit" /\ config.skip_shell =>
              ~Ran("write completion") /\ ~Ran("fopen rc file"))
    /\ [][config.skip_shell => AliasBlocks(fs') = AliasBlocks(fs)]_vars

\* the claim as it is worded
C39_ExactlyOneAliasBlock ==
    /\ [][Appended => ~NamesTool(fs)]_vars
    /\ [](/\ pc = "exit" /\ exit_status = 0 /\ ~config.skip_shell
          /\ Entered("setup_shell_integration")
          => AliasBlocks(fs) = 1)
    /\ SkipShellWritesNothing

\* what holds of the alias block: it is appended only by the stage, only if
\* fgets() and strstr() found the name in no piece of the file, so the runs
\* together append at most one block; a successful run without --skip-shell
\* that found HOME and could open the file leaves exactly one, unless a line of
\* the user's that the scan finds already named the tool
AtMostOneAliasBlock ==
    /\ [][Appended => /\ ~aliases_exist(fs)
                      /\ pc = "setup_shell_integration"
                      /\ ~config.skip_shell]_vars
    /\ [](AliasBlocks(fs) <= 1)
    /\ [](/\ pc = "exit" /\ exit_status = 0 /\ ~config.skip_shell
          /\ Entered("setup_shell_integration")
          /\ ~StepFailed("getenv HOME") /\ ~StepFailed("fopen rc file")
          /\ MENTION \notin fs
          => AliasBlocks(fs) = 1)
    /\ SkipShellWritesNothing

\* the rc file did not name the tool, an earlier run appended the block and
\* the run that just ended found it
AppendedOnceFoundLater ==
    /\ pc = "exit"
    /\ exit_status = 0
    /\ ~NamesTool(fs0)
    /\ AliasBlocks(fs) = 1
    /\ Logged("INFO", "Shell aliases already exist")

(***************************************************************************)
(* C40.  Every run of builder in which the external commands return comes  *)
(* to an end, in exactly one of four outcomes: the help exit, a failed     *)
(* check before the pipeline, the success end, the error end; and no stage *)
(* is entered a second time.                                               *)
(***************************************************************************)
\* how the run that has ended ended: what it printed last, or that a check
\* returned 1 before the pipeline was entered
Outcomes ==
    {o \in {"help", "check", "success", "error"} :
        \/ o = "help" /\ Printed("usage")
        \/ o = "check" /\ exit_status = 1 /\ ~Entered("setup_build_environment")
        \/ o = "success" /\ Printed("Next steps")
        \/ o = "error" /\ Printed("Troubleshooting")}

C40_TerminatesInOneOutcome ==
    /\ <>(pc = "exit")
    /\ [](pc = "exit" =>
            /\ Cardinality(Outcomes) = 1
            /\ exit_status = (IF Outcomes \subseteq {"help", "success"} THEN 0 ELSE 1)
            /\ \A a, b \in StageEntries : a # b => trace[a][2] # trace[b][2])

\* a run that went through the GPU stages and ended in the error state
C40_Witness ==
    /\ pc = "exit"
    /\ Outcomes = {"error"}
    /\ Entered("setup_vulkan_support")
    /\ Entered("configure_kernel")

====
